---- MODULE Spec2Model ----
(***************************************************************************)
(* A model of icechunk-js, the read-only Icechunk client: the store facade *)
(* (open / get / resolve), its Zarr-key parser, the two-level chunk lookup *)
(* (snapshot node -> manifest by extent -> chunk payload), the manifest    *)
(* LRU and the HTTP backend's requests.                                    *)
(*                                                                         *)
(* Strings.  Every string the store handles (keys, paths, URLs) is only    *)
(* ever cut, joined or matched at '/' characters, so a string is modelled  *)
(* exactly by the sequence of its '/'-separated segments:                  *)
(*     ""        = << "" >>            "a/b"  = << "a", "b" >>             *)
(*     "/"       = << "", "" >>        "a//b" = << "a", "", "b" >>         *)
(* This is a bijection between strings and non-empty sequences of          *)
(* slash-free atoms; the JavaScript string operations of the source are    *)
(* translated to it one by one below.                                      *)
(***************************************************************************)
EXTENDS Integers, Sequences, FiniteSets, TLC

VARIABLES
    stores,     \* the IcechunkStore objects created so far (open, resolve)
    caches,     \* heap of LRUCache objects: cache id -> entries, LRU first
    caps,       \* heap of LRUCache objects: cache id -> maxSize
    last,       \* what the last facade call did: its inputs, result and I/O
    arg,        \* the key handed to get in the key-parser specification
    lru,        \* a stand-alone LRUCache object (entries, LRU first)
    lruCap,     \* its capacity
    lruLast,    \* what the last call on the stand-alone cache did
    recency,    \* history: the keys ever set or hit, latest use last
    openedWith  \* history: the options open was called with

vars == <<stores, caches, caps, last, arg, lru, lruCap, lruLast, recency, openedWith>>

(***************************************************************************)
(* Bounds of the model.                                                    *)
(***************************************************************************)
MaxSegs == 4        \* longest key, in '/'-separated segments
MaxStores == 2      \* store objects: the opened one and its resolve views
MaxCap == 2         \* largest capacity of the stand-alone LRU cache
MaxKeys == 3        \* number of distinct keys offered to the stand-alone LRU
MaxProps == 2       \* most properties written in a ref file's JSON object

(***************************************************************************)
(* Sequence helpers.                                                       *)
(***************************************************************************)
Last(s) == s[Len(s)]
Front(s) == SubSeq(s, 1, Len(s) - 1)

RECURSIVE SeqsUpTo(_, _)
SeqsUpTo(S, n) ==
    IF n = 0 THEN {<<>>}
    ELSE LET shorter == SeqsUpTo(S, n - 1)
         IN  shorter \cup {Append(s, x) : s \in {t \in shorter : Len(t) = n - 1}, x \in S}

\* The strings of at most n segments over the atoms S.
Strings(S, n) == SeqsUpTo(S, n) \ {<<>>}

EmptyStr == <<"">>

\* a + "/" + b
JoinSlash(a, b) == a \o b

\* a + b, for the cases the source produces: one side ends or starts at a '/'.
Concat(a, b) ==
    CASE Last(a) = "" -> Front(a) \o b
      [] b[1] = ""    -> a \o Tail(b)

\* s.endsWith("/")
EndsWithSlash(s) == Len(s) >= 2 /\ Last(s) = ""

\* s.replace(/\/$/, "")
StripTrailingSlash(s) == IF EndsWithSlash(s) THEN Front(s) ELSE s

\* s.replace(/^\//, "")
StripLeadingSlash(s) == IF Len(s) >= 2 /\ s[1] = "" THEN Tail(s) ELSE s

\* s.replace(/^\/|\/$/g, ""): one leading and one trailing '/' are removed;
\* the single string "/" loses its only slash to the first alternative.
StripSlashes(s) == StripTrailingSlash(StripLeadingSlash(s))

RECURSIVE NonEmptyAtoms(_)
NonEmptyAtoms(s) ==
    IF s = <<>> THEN <<>>
    ELSE IF s[1] = "" THEN NonEmptyAtoms(Tail(s))
         ELSE <<s[1]>> \o NonEmptyAtoms(Tail(s))

\* s.replace(/\/+/g, "/"): every run of '/' becomes one '/'.
CollapseSlashes(s) ==
    IF Len(s) = 1 THEN s
    ELSE (IF s[1] = "" THEN <<"">> ELSE <<>>)
         \o NonEmptyAtoms(s)
         \o (IF Last(s) = "" THEN <<"">> ELSE <<>>)

\* No leading '/', no trailing '/', no run of '/': the canonical paths.
IsCanonical(s) == s = EmptyStr \/ \A i \in 1..Len(s) : s[i] # ""

(***************************************************************************)
(* Number(token), on the atoms the model offers as coordinate tokens.      *)
(* JavaScript's Number() maps the empty string to 0, a decimal literal to  *)
(* its value and any atom holding a letter to NaN.                         *)
(***************************************************************************)
Num(n) == [nan |-> FALSE, value |-> n]
NaN == [nan |-> TRUE, value |-> 0]

Number(tok) ==
    CASE tok = ""  -> Num(0)
      [] tok = "0" -> Num(0)
      [] tok = "1" -> Num(1)
      [] OTHER     -> NaN

isNaN(x) == x.nan

\* An unsigned decimal integer token.
IsDecimal(tok) == tok \in {"0", "1"}

MapNumber(toks) == [i \in 1..Len(toks) |-> Number(toks[i])]

\* nums.some(isNaN)
SomeNaN(nums) == \E i \in 1..Len(nums) : isNaN(nums[i])

Values(nums) == [i \in 1..Len(nums) |-> nums[i].value]

(***************************************************************************)
(* IcechunkStore.parseKey                                                  *)
(***************************************************************************)
ZarrJson == "zarr.json"

\* The positions i of key where the regular expression ^(.*)\/c\/(.+)$ can
\* match "/c/" : segment i is "c", it is preceded by a '/', and a non-empty
\* rest follows the '/' behind it.
ChunkMatches(key) ==
    {i \in 2..(Len(key) - 1) :
        /\ key[i] = "c"
        /\ SubSeq(key, i + 1, Len(key)) # EmptyStr}

\* parseKey with a lazy (.*?): the first "/c/" is taken instead of the last.
parseKeyFirstMatch(key) ==
    IF key = <<ZarrJson>> \/ (Len(key) >= 2 /\ Last(key) = ZarrJson)
    THEN [type |-> "metadata",
          path |-> StripTrailingSlash(IF key = <<ZarrJson>> THEN EmptyStr ELSE Front(key)),
          chunkCoords |-> <<>>]
    ELSE IF ChunkMatches(key) # {}
    THEN LET i == CHOOSE j \in ChunkMatches(key) : \A k \in ChunkMatches(key) : j <= k
             coords == MapNumber(SubSeq(key, i + 1, Len(key)))
         IN  IF SomeNaN(coords)
             THEN [type |-> "error", path |-> SubSeq(key, 1, i - 1), chunkCoords |-> <<>>]
             ELSE [type |-> "chunk", path |-> SubSeq(key, 1, i - 1),
                   chunkCoords |-> Values(coords)]
    ELSE [type |-> "metadata", path |-> key, chunkCoords |-> <<>>]

parseKey(key) ==
    IF key = <<ZarrJson>> \/ (Len(key) >= 2 /\ Last(key) = ZarrJson)
    THEN [type |-> "metadata",
          path |-> StripTrailingSlash(IF key = <<ZarrJson>> THEN EmptyStr ELSE Front(key)),
          chunkCoords |-> <<>>]
    ELSE IF ChunkMatches(key) # {}
    THEN LET \* (.*) is greedy: the last "/c/" that leaves a non-empty rest
             i == CHOOSE j \in ChunkMatches(key) : \A k \in ChunkMatches(key) : k <= j
             coords == MapNumber(SubSeq(key, i + 1, Len(key)))
         IN  IF SomeNaN(coords)
             THEN [type |-> "error", path |-> SubSeq(key, 1, i - 1), chunkCoords |-> <<>>]
             ELSE [type |-> "chunk", path |-> SubSeq(key, 1, i - 1),
                   chunkCoords |-> Values(coords)]
    ELSE [type |-> "metadata", path |-> key, chunkCoords |-> <<>>]

(***************************************************************************)
(* The repository the store reads: two snapshots, three manifests.         *)
(* Node paths are what parseNodeSnapshot stores: normalizePath(path).      *)
(***************************************************************************)
\* The values a property read from JSON may have, and undefined for a
\* property that is missing.
JsUndefined == [t |-> "undefined", n |-> 0, s |-> ""]
JsNull == [t |-> "null", n |-> 0, s |-> ""]
JsNumber(n) == [t |-> "number", n |-> n, s |-> ""]
JsString(s) == [t |-> "string", n |-> 0, s |-> s]
JsBoolean(b) == [t |-> "boolean", n |-> IF b THEN 1 ELSE 0, s |-> ""]

\* if (v): the truthiness of a value.
Truthy(v) ==
    CASE v.t = "number"  -> v.n # 0
      [] v.t = "string"  -> v.s # ""
      [] v.t = "boolean" -> v.n = 1
      [] OTHER           -> FALSE

\* userAttributes: its zarr_format property and the rest of the object.
Attributes(zarr_format, rest) == [zarr_format |-> zarr_format, rest |-> rest]

\* The zarrMetadata parseArrayNodeData returns.
ZarrMetadata(chunkKeyEncoding) ==
    [shape |-> <<2, 2>>, chunkShape |-> <<1, 1>>, dataType |-> "", fillValue |-> JsNull,
     codecs |-> <<>>, dimensionNames |-> JsUndefined, chunkKeyEncoding |-> chunkKeyEncoding]

Group == [type |-> "group", manifests |-> <<>>]
Array(ms) == [type |-> "array", manifests |-> ms, zarrMetadata |-> ZarrMetadata("slash")]
Ref(id, extents) == [id |-> id, extents |-> extents]

\* Snapshot "SA": nodes ascending by path.
NodesA ==
    << [id |-> "N0", userAttributes |-> Attributes(JsUndefined, "N0"), path |-> <<"">>,      nodeData |-> Group],
       [id |-> "N5", userAttributes |-> Attributes(JsUndefined, "N5"), path |-> <<"a">>,     nodeData |-> Group],
       [id |-> "N1", userAttributes |-> Attributes(JsNumber(3), "N1"), path |-> <<"a", "a">>,
        nodeData |-> Array(<<Ref("M1", <<<<0, 0>>>>), Ref("M3", <<<<1, 1>>>>)>>)],
       [id |-> "N2", userAttributes |-> Attributes(JsUndefined, "N2"), path |-> <<"a", "c">>,
        nodeData |-> Array(<<Ref("M2", <<<<0, 1>>, <<0, 0>>>>)>>)],
       [id |-> "N3", userAttributes |-> Attributes(JsNumber(2), "N3"), path |-> <<"c">>,
        nodeData |-> Array(<<Ref("M3", <<<<0, 1>>>>), Ref("M1", <<<<0, 1>>>>)>>)] >>

\* Snapshot "SB": the root node is itself an array.
NodesB ==
    << [id |-> "N4", userAttributes |-> Attributes(JsNumber(3), "N4"), path |-> <<"">>,
        nodeData |-> Array(<<Ref("M1", <<<<0, 1>>>>)>>)] >>

SnapshotIds == {"SA", "SB"}
Snapshot(id) == [id |-> id, nodes |-> IF id = "SA" THEN NodesA ELSE NodesB]

Inline(d) == [type |-> "inline", data |-> d, id |-> "", location |-> <<>>, offset |-> 0, length |-> 0]
Native(id, o, l) == [type |-> "native", data |-> "", id |-> id, location |-> <<>>, offset |-> o, length |-> l]
Virtual(loc, o, l) == [type |-> "virtual", data |-> "", id |-> "", location |-> loc, offset |-> o, length |-> l]

ManifestIds == {"M1", "M2", "M3"}

\* What decodeManifest yields for the object stored at manifests/{id}:
\* node id -> coordinates -> payload.  A pair not listed is absent.
ManifestEntries(id) ==
    CASE id = "M1" ->
           { <<"N1", <<0>>, Inline("D1")>>,
             <<"N3", <<1>>, Inline("D2")>>,
             <<"N4", <<0>>, Native("K1", 2, 3)>>,
             <<"N4", <<1>>, Virtual(<<"gs:", "", "b", "k">>, 0, 1)>> }
      [] id = "M2" ->
           { <<"N2", <<0, 0>>, Native("K2", 4, 2)>> }
      [] id = "M3" ->
           { <<"N3", <<0>>, Virtual(<<"s3:", "", "b", "k">>, 1, 1)>> }

Undefined == "undefined"

\* `undefined`, where a node, a ManifestRef or a payload is expected.
NoNode == [id |-> Undefined, userAttributes |-> Attributes(JsUndefined, ""), path |-> <<>>,
           nodeData |-> Group]
NoRef == Ref(Undefined, <<>>)
NoPayload == [type |-> Undefined, data |-> "", id |-> "", location |-> <<>>, offset |-> 0, length |-> 0]

(***************************************************************************)
(* core/snapshot: normalizePath, findNode                                  *)
(***************************************************************************)
normalizePath(path) ==
    IF path = <<"", "">> \/ path = EmptyStr THEN EmptyStr
    ELSE StripTrailingSlash(StripLeadingSlash(path))

\* Collation of the atoms that occur in paths, as Intl's collator orders
\* them: '/' sorts below their characters, so strings compare as their
\* segment sequences do; letters are ranked alphabetically first (AtomRank)
\* and by case only where two strings are otherwise equal (CaseRank).
AtomRank(a) ==
    CASE a = ""  -> 0
      [] a = "0" -> 1
      [] a = "1" -> 2
      [] a = "a" -> 3
      [] a = "b" -> 4
      [] a = "B" -> 4
      [] a = "c" -> 5
      [] a = "zarr.json" -> 6

CaseRank(a) == IF a = "B" THEN 1 ELSE 0

\* Sequences of ranks, compared position by position; a proper prefix is less.
RECURSIVE CompareRanks(_, _)
CompareRanks(u, v) ==
    IF u = <<>> /\ v = <<>> THEN 0
    ELSE IF u = <<>> THEN -1
    ELSE IF v = <<>> THEN 1
    ELSE IF u[1] < v[1] THEN -1
    ELSE IF u[1] > v[1] THEN 1
    ELSE CompareRanks(Tail(u), Tail(v))

\* x.localeCompare(y): negative, zero or positive.
localeCompare(x, y) ==
    LET primary == CompareRanks([i \in 1..Len(x) |-> AtomRank(x[i])],
                                [i \in 1..Len(y) |-> AtomRank(y[i])])
    IN  IF primary # 0 THEN primary
        ELSE CompareRanks([i \in 1..Len(x) |-> CaseRank(x[i])],
                          [i \in 1..Len(y) |-> CaseRank(y[i])])

RECURSIVE BinarySearch(_, _, _, _)
BinarySearch(nodes, target, low, high) ==
    IF low > high THEN NoNode
    ELSE LET mid == (low + high) \div 2
             cmp == localeCompare(nodes[mid].path, target)
         IN  IF cmp = 0 THEN nodes[mid]
             ELSE IF cmp < 0 THEN BinarySearch(nodes, target, mid + 1, high)
             ELSE BinarySearch(nodes, target, low, mid - 1)

\* Indices are 1-based here: low = 1, high = nodes.length.
findNode(snapshot, path) ==
    BinarySearch(snapshot.nodes, normalizePath(path), 1, Len(snapshot.nodes))

(***************************************************************************)
(* core/manifest: isChunkInExtent, findChunk, URLs                         *)
(***************************************************************************)
\* An isChunkInExtent whose extents exclude their upper end.
isChunkInExtentEndExclusive(chunkCoords, extents) ==
    IF Len(chunkCoords) # Len(extents) THEN FALSE
    ELSE \A i \in 1..Len(chunkCoords) :
            ~(chunkCoords[i] < extents[i][1] \/ chunkCoords[i] >= extents[i][2])

isChunkInExtent(chunkCoords, extents) ==
    IF Len(chunkCoords) # Len(extents) THEN FALSE
    ELSE \A i \in 1..Len(chunkCoords) :
            ~(chunkCoords[i] < extents[i][1] \/ chunkCoords[i] > extents[i][2])

findChunk(manifest, nodeId, chunkCoords) ==
    LET hits == {e \in ManifestEntries(manifest) : e[1] = nodeId /\ e[2] = chunkCoords}
    IN  IF hits = {} THEN NoPayload ELSE (CHOOSE e \in hits : TRUE)[3]

getManifestUrl(baseUrl, id) ==
    Concat(IF EndsWithSlash(baseUrl) THEN baseUrl ELSE baseUrl \o <<"">>, <<"manifests", id>>)

getChunkUrl(baseUrl, id) ==
    Concat(IF EndsWithSlash(baseUrl) THEN baseUrl ELSE baseUrl \o <<"">>, <<"chunks", id>>)

getSnapshotUrl(baseUrl, id) ==
    Concat(IF EndsWithSlash(baseUrl) THEN baseUrl ELSE baseUrl \o <<"">>, <<"snapshots", id>>)

(***************************************************************************)
(* backend/http: URL translation                                           *)
(***************************************************************************)
IsGs(url) == Len(url) >= 3 /\ url[1] = "gs:" /\ url[2] = ""
IsS3(url) == Len(url) >= 3 /\ url[1] = "s3:" /\ url[2] = ""

translateGcsUrl(url) ==
    IF IsGs(url)
    THEN <<"https:", "", "storage.googleapis.com">> \o SubSeq(url, 3, Len(url))
    ELSE url

\* `${bucket}.s3.${region}.amazonaws.com`, for the buckets of the model.
S3Host(bucket, region) ==
    CASE bucket = "b" /\ region = "us-east-1" -> "b.s3.us-east-1.amazonaws.com"
      [] bucket = "b" /\ region = "eu-west-1" -> "b.s3.eu-west-1.amazonaws.com"
      [] OTHER -> "?.s3.?.amazonaws.com"

translateS3Url(url, region) ==
    IF IsS3(url)
    THEN <<"https:", "", S3Host(url[3], region)>>
         \o (IF Len(url) = 3 THEN <<"">> ELSE SubSeq(url, 4, Len(url)))
    ELSE url

\* A translateUrl that knows gs:// only.
translateUrlGsOnly(url) ==
    IF IsGs(url) THEN translateGcsUrl(url) ELSE url

translateUrl(url) ==
    IF IsGs(url) THEN translateGcsUrl(url)
    ELSE IF IsS3(url) THEN translateS3Url(url, "us-east-1")
    ELSE url

(***************************************************************************)
(* encoding/crockford-base32: id validation.  An id is the sequence of its *)
(* characters.                                                             *)
(***************************************************************************)
UpperCase == <<"A", "B", "C", "D", "E", "F", "G", "H", "I", "J", "K", "L", "M",
               "N", "O", "P", "Q", "R", "S", "T", "U", "V", "W", "X", "Y", "Z">>
LowerCase == <<"a", "b", "c", "d", "e", "f", "g", "h", "i", "j", "k", "l", "m",
               "n", "o", "p", "q", "r", "s", "t", "u", "v", "w", "x", "y", "z">>

\* c.toUpperCase(), as the /i flag of a regular expression folds letters.
ToUpper(c) ==
    IF \E i \in 1..26 : LowerCase[i] = c
    THEN UpperCase[CHOOSE i \in 1..26 : LowerCase[i] = c]
    ELSE c

\* The character class [0-9A-HJ-NP-TV-Z].
IdClass ==
    {"0", "1", "2", "3", "4", "5", "6", "7", "8", "9",
     "A", "B", "C", "D", "E", "F", "G", "H",
     "J", "K", "L", "M", "N",
     "P", "Q", "R", "S", "T",
     "V", "W", "X", "Y", "Z"}

IdLength == 20

\* /^[0-9A-HJ-NP-TV-Z]{20}$/i.test(id)
isValidSnapshotId(id) ==
    /\ Len(id) = IdLength
    /\ \A i \in 1..Len(id) : ToUpper(id[i]) \in IdClass

(***************************************************************************)
(* cache/lru: LRUCache.  A cache is its entries, least recently used       *)
(* first; maxSize is kept beside it.                                       *)
(***************************************************************************)
Entry(k, v) == [key |-> k, value |-> v]

LRUKeys(entries) == {entries[i].key : i \in 1..Len(entries)}

LRUSize(entries) == Len(entries)

RECURSIVE LRURemove(_, _)
LRURemove(entries, k) ==
    IF entries = <<>> THEN <<>>
    ELSE IF entries[1].key = k THEN LRURemove(Tail(entries), k)
         ELSE <<entries[1]>> \o LRURemove(Tail(entries), k)

\* The value get(k) returns.
LRUValue(entries, k) ==
    IF k \in LRUKeys(entries)
    THEN (CHOOSE e \in {entries[i] : i \in 1..Len(entries)} : e.key = k).value
    ELSE Undefined

\* A get that never refreshes the entry it hits.
LRUGetNoRefresh(entries, k) == entries

\* A get whose miss moves the LRU entry to the MRU end.
LRUGetMissRotates(entries, k) ==
    IF k \in LRUKeys(entries)
    THEN Append(LRURemove(entries, k), Entry(k, LRUValue(entries, k)))
    ELSE IF entries = <<>> THEN entries ELSE Append(Tail(entries), entries[1])

\* A set that never evicts.
LRUSetNoEvict(entries, cap, k, v) == Append(LRURemove(entries, k), Entry(k, v))

\* A set that replaces the value of an existing key where it stands.
LRUSetInPlace(entries, cap, k, v) ==
    IF k \in LRUKeys(entries)
    THEN [i \in 1..Len(entries) |-> IF entries[i].key = k THEN Entry(k, v) ELSE entries[i]]
    ELSE IF Len(entries) + 1 > cap THEN Append(Tail(entries), Entry(k, v))
         ELSE Append(entries, Entry(k, v))

\* The entries after get(k): a hit moves the entry to the MRU end.
LRUGet(entries, k) ==
    IF k \in LRUKeys(entries)
    THEN Append(LRURemove(entries, k), Entry(k, LRUValue(entries, k)))
    ELSE entries

\* A set that adds its entry next to one the key already has.
LRUSetNoReplace(entries, cap, k, v) ==
    LET added == Append(entries, Entry(k, v))
    IN  IF Len(added) > cap THEN Tail(added) ELSE added

\* The entries after set(k, v): the entry is (re)inserted at the MRU end and,
\* when that makes size exceed capacity, the LRU entry is evicted.
LRUSet(entries, cap, k, v) ==
    LET added == Append(LRURemove(entries, k), Entry(k, v))
    IN  IF Len(added) > cap THEN Tail(added) ELSE added

LRUDelete(entries, k) == LRURemove(entries, k)

LRUClear(entries) == <<>>

DefaultManifestCapacity == 100

(***************************************************************************)
(* backend/http: the requests HttpBackend issues.                          *)
(***************************************************************************)
NoSignal == "none"

\* A request as issued, with the HTTP status that answered it and, for a
\* whole-object GET, what the body turned out to hold.
FetchReq(url, signal, status, body) ==
    [kind |-> "fetch", url |-> url, first |-> 0, last |-> 0, signal |-> signal,
     status |-> status, body |-> body]

\* A range request whose last byte is offset + length.
RangeReqEndExclusive(url, offset, length, signal, status) ==
    [kind |-> "range", url |-> url, first |-> offset,
     last |-> offset + length, signal |-> signal, status |-> status, body |-> "bytes"]

\* fetchRange: Range: bytes={offset}-{offset + length - 1}
RangeReq(url, offset, length, signal, status) ==
    [kind |-> "range", url |-> url, first |-> offset,
     last |-> offset + length - 1, signal |-> signal, status |-> status, body |-> "bytes"]

\* response.ok
ResponseOk(status) == 200 <= status /\ status <= 299

\* fetchRange accepts a response unless (!response.ok && status !== 206).
RangeAccepted(status) == ~(~ResponseOk(status) /\ status # 206)

Statuses == {200, 204, 206, 404}

\* What the object answering a manifest GET holds: a well-formed manifest, or
\* bytes decodeManifest raises on.
Bodies == {"manifest", "garbage"}

\* How the network answers one get: the status and body of the manifest GET
\* and the status of the chunk range GET, should they be issued.  An answer
\* that fails the manifest is listed once, with status 200 for the range GET
\* that a cached manifest may still lead to.
Nets ==
    {n \in [m : {200, 404}, b : Bodies, s : Statuses] :
        /\ n.m # 200 => n.b = "garbage"
        /\ n.b = "garbage" => n.s = 200}

(***************************************************************************)
(* IcechunkStore: get and what it calls.                                   *)
(***************************************************************************)
Absent == [kind |-> "absent", data |-> <<>>]
Bytes(d) == [kind |-> "bytes", data |-> d]
Error(e) == [kind |-> "error", data |-> <<e>>]
Value(x) == [kind |-> "value", data |-> x]

Outcome(result, reqs, entries) == [result |-> result, reqs |-> reqs, entries |-> entries]

\* A lookup that takes the first ManifestRef whatever its extents.
findManifestForChunkAny(manifests, coords) ==
    IF manifests = <<>> THEN NoRef ELSE manifests[1]

\* A lookup that takes the last covering ManifestRef.
findManifestForChunkLast(manifests, coords) ==
    LET covering == {i \in 1..Len(manifests) : isChunkInExtent(coords, manifests[i].extents)}
    IN  IF covering = {} THEN NoRef
        ELSE manifests[CHOOSE i \in covering : \A j \in covering : j <= i]

findManifestForChunk(manifests, coords) ==
    LET covering == {i \in 1..Len(manifests) : isChunkInExtent(coords, manifests[i].extents)}
    IN  IF covering = {} THEN NoRef
        ELSE manifests[CHOOSE i \in covering : \A j \in covering : i <= j]

\* fetchChunkData(payload): the result and the requests issued.
fetchChunkData(rootUrl, payload, net) ==
    LET ranged(url) ==
            [result |-> IF RangeAccepted(net.s)
                        THEN Bytes(<<"body", url, payload.offset,
                                     payload.offset + payload.length - 1, net.s>>)
                        ELSE Error("io"),
             reqs |-> <<RangeReq(url, payload.offset, payload.length, NoSignal, net.s)>>]
    IN  CASE payload.type = "inline"  -> [result |-> Bytes(<<"inline", payload.data>>), reqs |-> <<>>]
          [] payload.type = "native"  -> ranged(getChunkUrl(rootUrl, payload.id))
          [] payload.type = "virtual" -> ranged(translateUrl(payload.location))

\* A fetchManifest that caches what it fetched before decoding it.
fetchManifestSetFirst(rootUrl, id, entries, cap, net) ==
    IF LRUValue(entries, id) # Undefined
    THEN [ok |-> TRUE, error |-> "", manifest |-> LRUValue(entries, id), reqs |-> <<>>,
          entries |-> LRUGet(entries, id)]
    ELSE LET req == FetchReq(getManifestUrl(rootUrl, id), NoSignal, net.m, net.b)
         IN  IF ~ResponseOk(net.m)
             THEN [ok |-> FALSE, error |-> "io", manifest |-> Undefined, reqs |-> <<req>>,
                   entries |-> LRUGet(entries, id)]
             ELSE IF net.b # "manifest"
             THEN [ok |-> FALSE, error |-> "format", manifest |-> Undefined,
                   reqs |-> <<req>>, entries |-> LRUSet(LRUGet(entries, id), cap, id, id)]
             ELSE [ok |-> TRUE, error |-> "", manifest |-> id, reqs |-> <<req>>,
                   entries |-> LRUSet(LRUGet(entries, id), cap, id, id)]

\* fetchManifest(id): [ok, error, manifest, reqs, entries].  backend.fetch
\* throws on a status that is not ok, decodeManifest on a malformed body; the
\* cache is set after both.
\* A fetchManifest that never looks in the cache.
fetchManifestNoCache(rootUrl, id, entries, cap, net) ==
    LET req == FetchReq(getManifestUrl(rootUrl, id), NoSignal, net.m, net.b)
    IN  IF ~ResponseOk(net.m) \/ net.b # "manifest"
        THEN [ok |-> FALSE, error |-> "io", manifest |-> Undefined, reqs |-> <<req>>,
              entries |-> entries]
        ELSE [ok |-> TRUE, error |-> "", manifest |-> id, reqs |-> <<req>>,
              entries |-> LRUSet(entries, cap, id, id)]

fetchManifest(rootUrl, id, entries, cap, net) ==
    IF LRUValue(entries, id) # Undefined
    THEN [ok |-> TRUE, error |-> "", manifest |-> LRUValue(entries, id), reqs |-> <<>>,
          entries |-> LRUGet(entries, id)]
    ELSE LET req == FetchReq(getManifestUrl(rootUrl, id), NoSignal, net.m, net.b)
         IN  IF ~ResponseOk(net.m)
             THEN [ok |-> FALSE, error |-> "io", manifest |-> Undefined, reqs |-> <<req>>,
                   entries |-> LRUGet(entries, id)]
             ELSE IF net.b # "manifest"
             THEN [ok |-> FALSE, error |-> "format", manifest |-> Undefined,
                   reqs |-> <<req>>, entries |-> LRUGet(entries, id)]
             ELSE [ok |-> TRUE, error |-> "", manifest |-> id, reqs |-> <<req>>,
                   entries |-> LRUSet(LRUGet(entries, id), cap, id, id)]

\* JSON.stringify(document)
Stringify(document) == [json |-> document]

encodeZarrJson(node) ==
    IF node.nodeData.type = "group"
    THEN Stringify([zarr_format |-> 3, node_type |-> "group", attributes |-> node.userAttributes])
    ELSE IF Truthy(node.userAttributes.zarr_format)
    THEN Stringify(node.userAttributes)
    ELSE LET zarrMetadata == node.nodeData.zarrMetadata
         IN  Stringify(
               [zarr_format |-> 3,
                node_type |-> "array",
                shape |-> zarrMetadata.shape,
                data_type |-> zarrMetadata.dataType,
                chunk_grid |-> [name |-> "regular",
                                configuration |-> [chunk_shape |-> zarrMetadata.chunkShape]],
                chunk_key_encoding |->
                    [name |-> IF zarrMetadata.chunkKeyEncoding = "slash" THEN "default" ELSE "v2",
                     configuration |->
                        [separator |-> IF zarrMetadata.chunkKeyEncoding = "slash" THEN "/" ELSE "."]],
                fill_value |-> zarrMetadata.fillValue,
                codecs |-> zarrMetadata.codecs,
                dimension_names |-> zarrMetadata.dimensionNames,
                attributes |-> <<>>])

getMetadata(snapshot, path, entries) ==
    LET node == findNode(snapshot, path)
    IN  IF node = NoNode THEN Outcome(Absent, <<>>, entries)
        ELSE Outcome(Bytes(encodeZarrJson(node)), <<>>, entries)

getChunk(rootUrl, snapshot, arrayPath, coords, entries, cap, net) ==
    LET node == findNode(snapshot, arrayPath)
    IN  IF node = NoNode THEN Outcome(Absent, <<>>, entries)
        ELSE IF node.nodeData.type # "array" THEN Outcome(Absent, <<>>, entries)
        ELSE
          LET manifestRef == findManifestForChunk(node.nodeData.manifests, coords)
          IN  IF manifestRef = NoRef THEN Outcome(Absent, <<>>, entries)
              ELSE
                LET fm == fetchManifest(rootUrl, manifestRef.id, entries, cap, net)
                IN  IF ~fm.ok THEN Outcome(Error(fm.error), fm.reqs, fm.entries)
                    ELSE
                      LET chunkPayload == findChunk(fm.manifest, node.id, coords)
                      IN  IF chunkPayload = NoPayload
                          THEN Outcome(Absent, fm.reqs, fm.entries)
                          ELSE LET fc == fetchChunkData(rootUrl, chunkPayload, net)
                               IN  Outcome(fc.result, fm.reqs \o fc.reqs, fm.entries)

\* `${this.basePath}/${key}` when basePath is a non-empty string, else key.
FullKey(basePath, key) ==
    IF basePath # EmptyStr THEN JoinSlash(basePath, key) ELSE key

\* get(key) on a store whose manifest cache holds `entries`.
GetOutcome(store, key, entries, cap, net) ==
    IF store.snapshot = "null" THEN Outcome(Error("notinit"), <<>>, entries)
    ELSE LET parsed == parseKey(FullKey(store.basePath, key))
             snapshot == Snapshot(store.snapshot)
         IN  CASE parsed.type = "error"    -> Outcome(Error("badkey"), <<>>, entries)
               [] parsed.type = "metadata" -> getMetadata(snapshot, parsed.path, entries)
               [] parsed.type = "chunk"    ->
                    getChunk(store.rootUrl, snapshot, parsed.path, parsed.chunkCoords,
                             entries, cap, net)

\* resolve(path): the basePath of the new view.
ResolveBasePath(basePath, path) ==
    IF basePath # EmptyStr
    THEN StripSlashes(CollapseSlashes(JoinSlash(basePath, path)))
    ELSE StripSlashes(path)

(***************************************************************************)
(* Inputs offered to the facade.                                           *)
(***************************************************************************)
Atoms == {"", "a", "c", "0", "1", ZarrJson}

\* Every key of at most MaxSegs segments.
Keys == Strings(Atoms, MaxSegs)

\* Keys offered to get in the store specification.
StoreKeys ==
    { <<ZarrJson>>, <<"a", ZarrJson>>, <<"a">>, <<"1">>,
      <<"c", "0">>, <<"c", "1">>, <<"c", "0", "0">>, <<"c", "1", "0">>, <<"c", "0", "1">>,
      <<"", "c", "0">>, <<"", "c", "1">>, <<"a", "c", "0">>, <<"a", "c", "1">>,
      <<"c", "c", "0">>, <<"c", "c", "1">>, <<"c", "c", "0", "0">>,
      <<"c", "", "0">>, <<"c", "a">> }

\* Paths offered to resolve.
Subs == { <<"">>, <<"a">>, <<"a", "a">>, <<"", "", "a">> }

RootUrls == { <<"https:", "", "h", "r">>, <<"gs:", "", "b", "r", "">> }

\* URLs offered to translateUrl.
TranslatedUrls ==
    { <<"gs:", "", "b", "k">>, <<"gs:", "", "b">>, <<"gs:", "", "b", "k", "k">>,
      <<"s3:", "", "b", "k">>, <<"s3:", "", "b">>, <<"s3:", "", "b", "k", "k">>,
      <<"https:", "", "h", "k">>, <<"http:", "", "h", "k">>,
      <<"https:", "", "storage.googleapis.com", "b", "k">>,
      <<"https:", "", "b.s3.us-east-1.amazonaws.com", "k">>,
      <<"gs:", "b">>, <<"b", "k">>, EmptyStr }

None == "none"

\* Options offered to open: ref, tag, snapshot, cache.manifests (<<>> when
\* not given), signal.
OpenOptions ==
    << [ref |-> "main", tag |-> None, snapshot |-> None, manifests |-> <<>>, signal |-> None],
      [ref |-> None,   tag |-> None, snapshot |-> None, manifests |-> <<1>>, signal |-> "sig"],
      [ref |-> None,   tag |-> "v1", snapshot |-> None, manifests |-> <<1>>, signal |-> None],
      [ref |-> "main", tag |-> None, snapshot |-> "SA", manifests |-> <<2>>, signal |-> "sig"],
      [ref |-> "dev",  tag |-> "v1", snapshot |-> None, manifests |-> <<>>, signal |-> None],
      [ref |-> "dev",  tag |-> None, snapshot |-> None, manifests |-> <<>>, signal |-> None],
      [ref |-> None,   tag |-> None, snapshot |-> "bad", manifests |-> <<>>, signal |-> None] >>

\* The text of the snapshot ids the options and ref files name: "SA" and
\* "SB" are well-formed ids, "bad" is not one.
IdText(name) ==
    CASE name = "SA" -> [i \in 1..IdLength |-> IF i = IdLength THEN "A" ELSE "0"]
      [] name = "SB" -> [i \in 1..IdLength |-> IF i = IdLength THEN "B" ELSE "0"]
      [] OTHER       -> <<"b", "a", "d", "!">>

\* No option given.
NoOptions == [ref |-> None, tag |-> None, snapshot |-> None, manifests |-> <<>>, signal |-> None]

\* The ref files of the repository: path segments -> snapshot id.
getBranchRefPath(branchName) == <<"refs", <<"branch", branchName>>, "ref.json">>
\* A tag path built as a branch path.
getTagRefPathAsBranch(tagName) == <<"refs", <<"branch", tagName>>, "ref.json">>

getTagRefPath(tagName) == <<"refs", <<"tag", tagName>>, "ref.json">>

RefFile(refPath) ==
    CASE refPath = getBranchRefPath("main") -> "SA"
      [] refPath = getTagRefPath("v1")      -> "SB"
      [] refPath = getBranchRefPath("dev")  -> "SA"
      [] OTHER                              -> None

NoCall ==
    [op |-> "none", store |-> 0, key |-> <<>>,
     result |-> Absent, reqs |-> <<>>, before |-> <<>>]

\* A settled call: the operation, the store it ran on (0: none), its key or
\* path, its result, the requests it issued in order, and the entries its
\* manifest cache held when it began.
Call(op, store, key, result, reqs, before) ==
    [op |-> op, store |-> store, key |-> key,
     result |-> result, reqs |-> reqs, before |-> before]

\* A settled call on the stand-alone cache: the operation, its key and value,
\* what it returned and the entries the cache held when it began.
LruCall(op, k, v, result, before) ==
    [op |-> op, key |-> k, value |-> v, result |-> result, before |-> before]

NoLruCall == LruCall("none", "", "", Undefined, <<>>)

NewStore(rootUrl, basePath, snapshot, cache, parent, sub) ==
    [rootUrl |-> IF EndsWithSlash(rootUrl) THEN rootUrl ELSE rootUrl \o <<"">>,
     basePath |-> basePath, snapshot |-> snapshot, cache |-> cache, backend |-> cache,
     parent |-> parent, sub |-> sub]

(***************************************************************************)
(* store: listNodes, listChildren.  Among the segments of paths "ab" is    *)
(* the one that begins with another segment, "a".                          *)
(***************************************************************************)
SegmentStartsWith(a, b) == b = "" \/ a = b \/ (a = "ab" /\ b = "a")
\* a.slice(b.length), where a starts with b
SegmentRest(a, b) == IF b = "" THEN a ELSE IF a = b THEN "" ELSE "b"

\* s.startsWith(prefix)
StartsWith(s, prefix) ==
    /\ Len(prefix) <= Len(s)
    /\ \A i \in 1..(Len(prefix) - 1) : s[i] = prefix[i]
    /\ SegmentStartsWith(s[Len(prefix)], prefix[Len(prefix)])

\* s.slice(prefix.length), where s starts with prefix
SliceFrom(s, prefix) ==
    <<SegmentRest(s[Len(prefix)], prefix[Len(prefix)])>> \o SubSeq(s, Len(prefix) + 1, Len(s))

\* The loop over the nodes from the i-th on, children being the Set so far
\* in insertion order.
RECURSIVE CollectChildren(_, _, _, _)
CollectChildren(nodes, prefix, i, children) ==
    IF i > Len(nodes) THEN children
    ELSE IF StartsWith(nodes[i].path, prefix)
    THEN LET rest == SliceFrom(nodes[i].path, prefix)
             nextPart == rest[1]
         IN  IF nextPart # "" /\ ~(\E k \in 1..Len(children) : children[k] = nextPart)
             THEN CollectChildren(nodes, prefix, i + 1, Append(children, nextPart))
             ELSE CollectChildren(nodes, prefix, i + 1, children)
    ELSE CollectChildren(nodes, prefix, i + 1, children)

\* A listChildren whose prefix lacks the closing '/'.
listChildrenBarePrefix(snapshot, path) ==
    CollectChildren(snapshot.nodes, StripSlashes(path), 1, <<>>)

listChildren(snapshot, path) ==
    LET normalizedPath == StripSlashes(path)
        prefix == IF normalizedPath # EmptyStr THEN normalizedPath \o <<"">> ELSE EmptyStr
    IN  CollectChildren(snapshot.nodes, prefix, 1, <<>>)

listNodes(snapshot) == snapshot.nodes

(***************************************************************************)
(* The facade's operations.                                                *)
(***************************************************************************)
Init ==
    /\ stores = <<>>
    /\ caches = <<>>
    /\ caps = <<>>
    /\ last = NoCall
    /\ arg = <<>>
    /\ lru = <<>>
    /\ lruCap = 0
    /\ lruLast = NoLruCall
    /\ recency = <<>>
    /\ openedWith = NoOptions

\* IcechunkStore.open(rootUrl, options): resolveSnapshotId, then the snapshot
\* GET and decode.  refNet / snapNet: the status that answers each GET.
Open(rootUrl, options, refNet, snapNet) ==
    /\ stores = <<>>
    /\ last.op = "none"
    /\ LET root == IF EndsWithSlash(rootUrl) THEN rootUrl ELSE rootUrl \o <<"">>
           direct == options.snapshot # None
           refPath == IF options.tag # None
                      THEN getTagRefPath(options.tag)
                      ELSE getBranchRefPath(IF options.ref # None THEN options.ref ELSE "main")
           refReq == FetchReq(root \o <<refPath>>, options.signal, refNet, "ref")
           refOk == ResponseOk(refNet) /\ RefFile(refPath) # None
           snapshotId == IF direct THEN options.snapshot ELSE RefFile(refPath)
           snapReq == FetchReq(getSnapshotUrl(root, snapshotId), options.signal, snapNet, "snapshot")
           capacity == IF options.manifests # <<>> THEN options.manifests[1]
                       ELSE DefaultManifestCapacity
       IN  IF ~direct /\ ~refOk
           THEN /\ last' = Call("open", 0, <<>>, Error("io"), <<refReq>>, <<>>)
                /\ UNCHANGED <<stores, caches, caps>>
           ELSE IF ~ResponseOk(snapNet) \/ snapshotId \notin SnapshotIds
           THEN /\ last' = Call("open", 0, <<>>, Error("io"),
                                (IF direct THEN <<>> ELSE <<refReq>>) \o <<snapReq>>, <<>>)
                /\ UNCHANGED <<stores, caches, caps>>
           ELSE /\ stores' = <<NewStore(rootUrl, EmptyStr, snapshotId, 1, 0, <<>>)>>
                /\ caches' = << <<>> >>
                /\ caps' = <<capacity>>
                /\ last' = Call("open", 1, <<>>, Absent,
                                (IF direct THEN <<>> ELSE <<refReq>>) \o <<snapReq>>, <<>>)
    /\ openedWith' = options
    /\ UNCHANGED <<arg, lru, lruCap, lruLast, recency>>

\* A view that keeps the cache and backend its constructor made.
ResolvedStoreOwnCache(p, n, path) ==
    NewStore(stores[p].rootUrl, ResolveBasePath(stores[p].basePath, path),
             stores[p].snapshot, n, p, path)

\* A view left with the snapshot its constructor gave it.
ResolvedStoreNoSnapshot(p, n, path) ==
    NewStore(stores[p].rootUrl, ResolveBasePath(stores[p].basePath, path),
             "null", stores[p].cache, p, path)

\* The store object resolve(path) builds from store p: the constructor makes
\* it a fresh cache and backend (object n), which are then replaced by p's.
ResolvedStore(p, n, path) ==
    NewStore(stores[p].rootUrl, ResolveBasePath(stores[p].basePath, path),
             stores[p].snapshot, stores[p].cache, p, path)

Resolve(p, path) ==
    /\ last.op = "none"
    /\ p \in 1..Len(stores)
    /\ Len(stores) < MaxStores
    /\ LET n == Len(stores) + 1
       IN  /\ stores' = Append(stores, ResolvedStore(p, n, path))
           /\ caches' = Append(caches, <<>>)
           /\ caps' = Append(caps, DefaultManifestCapacity)
           /\ last' = Call("resolve", n, path, Absent, <<>>, <<>>)
    /\ UNCHANGED <<arg, lru, lruCap, lruLast, recency, openedWith>>

\* get(key) on store s, the network answering as net.
Get(s, key, net) ==
    /\ last.op = "none"
    /\ s \in 1..Len(stores)
    /\ LET c == stores[s].cache
           out == GetOutcome(stores[s], key, caches[c], caps[c], net)
       IN  /\ caches' = [caches EXCEPT ![c] = out.entries]
           /\ last' = Call("get", s, key, out.result, out.reqs, caches[c])
    /\ UNCHANGED <<stores, caps, arg, lru, lruCap, lruLast, recency, openedWith>>

\* getSnapshot() on store s.
GetSnapshot(s) ==
    /\ last.op = "none"
    /\ s \in 1..Len(stores)
    /\ last' = Call("getSnapshot", s, <<>>, Value(<<stores[s].snapshot>>), <<>>, <<>>)
    /\ UNCHANGED <<stores, caches, caps, arg, lru, lruCap, lruLast, recency, openedWith>>

\* listNodes() on store s.
StoreListNodes(s) ==
    /\ last.op = "none"
    /\ s \in 1..Len(stores)
    /\ last' = Call("listNodes", s, <<>>,
                    Value(IF stores[s].snapshot = "null" THEN <<>>
                          ELSE listNodes(Snapshot(stores[s].snapshot))), <<>>, <<>>)
    /\ UNCHANGED <<stores, caches, caps, arg, lru, lruCap, lruLast, recency, openedWith>>

\* listChildren(path) on store s.
StoreListChildren(s, path) ==
    /\ last.op = "none"
    /\ s \in 1..Len(stores)
    /\ last' = Call("listChildren", s, path,
                    Value(IF stores[s].snapshot = "null" THEN <<>>
                          ELSE listChildren(Snapshot(stores[s].snapshot), path)), <<>>, <<>>)
    /\ UNCHANGED <<stores, caches, caps, arg, lru, lruCap, lruLast, recency, openedWith>>

\* translateUrl(url), the exported function, called on its own.
TranslateUrl(url) ==
    /\ last.op = "none"
    /\ last' = Call("translateUrl", 0, url, Value(translateUrl(url)), <<>>, <<>>)
    /\ UNCHANGED <<stores, caches, caps, arg, lru, lruCap, lruLast, recency, openedWith>>

\* The caller takes the settled result of its call and goes on.  Of the
\* options of a settled open only the signal is remembered, and nothing of
\* an open that failed.
Consume ==
    /\ last.op # "none"
    /\ last' = NoCall
    /\ openedWith' = IF last.op # "open" THEN openedWith
                     ELSE IF stores = <<>> THEN NoOptions
                     ELSE [NoOptions EXCEPT !.signal = openedWith.signal]
    /\ UNCHANGED <<stores, caches, caps, arg, lru, lruCap, lruLast, recency>>

\* Paths offered to listChildren on a store.
ChildrenOf == { <<"">>, <<"g">> }

Next ==
    \/ \E u \in RootUrls, o \in 1..Len(OpenOptions), rn \in {200, 404}, sn \in {200, 404} :
          Open(u, OpenOptions[o], rn, sn)
    \/ \E p \in 1..MaxStores, path \in Subs : Resolve(p, path)
    \/ \E s \in 1..MaxStores, key \in StoreKeys, net \in Nets : Get(s, key, net)
    \/ \E url \in TranslatedUrls : TranslateUrl(url)
    \/ \E s \in 1..MaxStores : GetSnapshot(s)
    \/ \E s \in 1..MaxStores : StoreListNodes(s)
    \/ \E s \in 1..MaxStores, path \in ChildrenOf : StoreListChildren(s, path)
    \/ Consume

Spec == Init /\ [][Next]_vars

(***************************************************************************)
(* The key-parser specification: an opened store is handed one key.        *)
(***************************************************************************)
InitKey ==
    /\ \E u \in RootUrls, id \in SnapshotIds :
          stores = <<NewStore(u, EmptyStr, id, 1, 0, <<>>)>>
    /\ caches = << <<>> >>
    /\ caps = <<DefaultManifestCapacity>>
    /\ last = NoCall
    /\ arg \in Keys
    /\ lru = <<>>
    /\ lruCap = 0
    /\ lruLast = NoLruCall
    /\ recency = <<>>
    /\ openedWith = OpenOptions[1]

\* get(arg) on the opened store.
GetArg(net) ==
    /\ arg # <<>>
    /\ Get(1, arg, net)

NextKey == \E net \in Nets : GetArg(net)

SpecKey == InitKey /\ [][NextKey]_vars

(***************************************************************************)
(* The cache specification: one LRUCache object of capacity lruCap under   *)
(* any sequence of set / get / delete / clear.                             *)
(***************************************************************************)
KeyNames == <<"k1", "k2", "k3", "k4", "k5", "k6">>
LruKeys == {KeyNames[i] : i \in 1..MaxKeys}
LruValues == {"v1", "v2"}

\* The use history after key k is set or hit.
Used(history, k) == Append(SelectSeq(history, LAMBDA x : x # k), k)

InitLRU ==
    /\ stores = <<>>
    /\ caches = <<>>
    /\ caps = <<>>
    /\ last = NoCall
    /\ arg = <<>>
    /\ lru = <<>>
    /\ lruCap \in 1..MaxCap
    /\ lruLast = NoLruCall
    /\ recency = <<>>
    /\ openedWith = NoOptions

LruSet(k, v) ==
    /\ lruCap > 0
    /\ lru' = LRUSet(lru, lruCap, k, v)
    /\ lruLast' = LruCall("set", k, v, Undefined, lru)
    /\ recency' = Used(recency, k)
    /\ UNCHANGED <<stores, caches, caps, last, arg, lruCap, openedWith>>

LruGet(k) ==
    /\ lruCap > 0
    /\ lru' = LRUGet(lru, k)
    /\ lruLast' = LruCall("get", k, "", LRUValue(lru, k), lru)
    /\ recency' = IF k \in LRUKeys(lru) THEN Used(recency, k) ELSE recency
    /\ UNCHANGED <<stores, caches, caps, last, arg, lruCap, openedWith>>

LruDelete(k) ==
    /\ lruCap > 0
    /\ lru' = LRUDelete(lru, k)
    /\ lruLast' = LruCall("delete", k, "", Undefined, lru)
    /\ UNCHANGED <<stores, caches, caps, last, arg, lruCap, recency, openedWith>>

LruClear ==
    /\ lruCap > 0
    /\ lru' = LRUClear(lru)
    /\ lruLast' = LruCall("clear", "", "", Undefined, lru)
    /\ UNCHANGED <<stores, caches, caps, last, arg, lruCap, recency, openedWith>>

NextLRU ==
    \/ \E k \in LruKeys, v \in LruValues : LruSet(k, v)
    \/ \E k \in LruKeys : LruGet(k)
    \/ \E k \in LruKeys : LruDelete(k)
    \/ LruClear

SpecLRU == InitLRU /\ [][NextLRU]_vars

(***************************************************************************)
(* What the repository holds, read off the fixtures directly: the node at  *)
(* a path, the ManifestRefs covering a coordinate, the entries of a        *)
(* manifest.  The properties below are stated against these.               *)
(***************************************************************************)
NodeAt(snapshot, path) ==
    LET at == {i \in 1..Len(snapshot.nodes) : snapshot.nodes[i].path = normalizePath(path)}
    IN  IF at = {} THEN NoNode ELSE snapshot.nodes[CHOOSE i \in at : TRUE]

MetadataAt(snapshot, path) ==
    IF NodeAt(snapshot, path) = NoNode THEN Absent
    ELSE Bytes(encodeZarrJson(NodeAt(snapshot, path)))

Covering(node, coords) ==
    {i \in 1..Len(node.nodeData.manifests) :
        LET extents == node.nodeData.manifests[i].extents
        IN  /\ Len(extents) = Len(coords)
            /\ \A d \in 1..Len(coords) :
                  extents[d][1] <= coords[d] /\ coords[d] <= extents[d][2]}

FirstCovering(node, coords) ==
    node.nodeData.manifests[CHOOSE i \in Covering(node, coords) :
                               \A j \in Covering(node, coords) : i <= j]

EntriesFor(manifestId, nodeId, coords) ==
    {e \in ManifestEntries(manifestId) : e[1] = nodeId /\ e[2] = coords}

\* The store, parsed key, snapshot and node of the last get.
LastStore == stores[last.store]
LastParsed == parseKey(FullKey(LastStore.basePath, last.key))
LastSnapshot == Snapshot(LastStore.snapshot)
LastNode == NodeAt(LastSnapshot, LastParsed.path)
LastIsGet == last.op = "get" /\ LastParsed.type # "error"
LastIsArrayChunk ==
    /\ LastIsGet
    /\ LastParsed.type = "chunk"
    /\ LastNode # NoNode
    /\ LastNode.nodeData.type = "array"
LastCovering == Covering(LastNode, LastParsed.chunkCoords)
LastRef == FirstCovering(LastNode, LastParsed.chunkCoords)
LastEntries == EntriesFor(LastRef.id, LastNode.id, LastParsed.chunkCoords)
LastManifestLoaded ==
    \A i \in 1..Len(last.reqs) :
        last.reqs[i].kind = "fetch" =>
            (ResponseOk(last.reqs[i].status) /\ last.reqs[i].body = "manifest")
LastRanges == SelectSeq(last.reqs, LAMBDA r : r.kind = "range")
LastFetches == SelectSeq(last.reqs, LAMBDA r : r.kind = "fetch")

\* C1: get returns undefined and raises no error when (a) no node exists at
\* the key's path, (b) the array node exists but no ManifestRef covers the
\* coordinates, (c) the selected manifest has no entry for the node id and
\* coordinates; in (a) and (b) it issues no manifest and no chunk request.
C1_AbsentIsUndefined ==
    LastIsGet =>
      /\ LastNode = NoNode => (last.result = Absent /\ last.reqs = <<>>)
      /\ (LastIsArrayChunk /\ LastCovering = {}) =>
            (last.result = Absent /\ last.reqs = <<>>)
      /\ (LastIsArrayChunk /\ LastCovering # {} /\ LastEntries = {} /\ LastManifestLoaded) =>
            (last.result = Absent /\ LastRanges = <<>>)

\* A get of case (c) that fetched the manifest and found no entry in it.
C1_Witness ==
    /\ LastIsArrayChunk
    /\ LastCovering # {}
    /\ LastEntries = {}
    /\ Len(last.reqs) = 1
    /\ LastManifestLoaded
    /\ last.result = Absent

\* The https URL a virtual location stands for, for the locations of the
\* repository.
HttpsOf(location) ==
    CASE location = <<"gs:", "", "b", "k">> -> <<"https:", "", "storage.googleapis.com", "b", "k">>
      [] location = <<"s3:", "", "b", "k">> -> <<"https:", "", "b.s3.us-east-1.amazonaws.com", "k">>

\* C4: a located payload is served by its tag: inline returns the embedded
\* data with no request; native issues exactly one range request on
\* {root}chunks/{id} for bytes offset..offset+length-1; virtual issues exactly
\* one range request with the same bounds on the translated location.
C4_ServeByTag ==
    (LastIsArrayChunk /\ LastCovering # {} /\ LastEntries # {} /\ LastManifestLoaded) =>
      LET payload == (CHOOSE e \in LastEntries : TRUE)[3]
          target == IF payload.type = "native"
                    THEN Front(LastStore.rootUrl) \o <<"chunks", payload.id>>
                    ELSE HttpsOf(payload.location)
      IN  /\ Len(LastFetches) <= 1
          /\ payload.type = "inline" =>
                /\ LastRanges = <<>>
                /\ last.result = Bytes(<<"inline", payload.data>>)
          /\ payload.type \in {"native", "virtual"} =>
                /\ Len(LastRanges) = 1
                /\ Last(last.reqs) = LastRanges[1]
                /\ LastRanges[1].url = target
                /\ LastRanges[1].first = payload.offset
                /\ LastRanges[1].last = payload.offset + payload.length - 1

\* A get that served a virtual payload from its translated URL.
C4_Witness ==
    /\ LastIsArrayChunk
    /\ LastCovering # {}
    /\ LastEntries # {}
    /\ (CHOOSE e \in LastEntries : TRUE)[3].type = "virtual"
    /\ Len(LastRanges) = 1
    /\ last.result.kind = "bytes"

(***************************************************************************)
(* The key grammar, stated on the key itself.                              *)
(***************************************************************************)
\* "{p}/zarr.json"
IsMetadataKey(k) == Len(k) >= 2 /\ Last(k) = ZarrJson

\* The positions of "c" that split k as "{p}/c/{tokens}".
ChunkSplits(k) == {i \in 2..(Len(k) - 1) : k[i] = "c"}

\* ... with every token an unsigned decimal integer.
NumericSplits(k) ==
    {i \in ChunkSplits(k) : \A j \in (i + 1)..Len(k) : IsDecimal(k[j])}

DecimalValue(tok) == IF tok = "0" THEN 0 ELSE 1

Coordinates(k, i) == [j \in 1..(Len(k) - i) |-> DecimalValue(k[i + j])]

\* p ends in two or more '/'.
EndsWithSlashes(p) == Len(p) >= 3 /\ p[Len(p)] = "" /\ p[Len(p) - 1] = ""

\* The last get targeted the chunk at `coords` of the array node at path p.
TargetsChunk(p, coords) ==
    \E net \in Nets :
        LET out == getChunk(stores[1].rootUrl, Snapshot(stores[1].snapshot), p, coords,
                            last.before, caps[1], net)
        IN  last.result = out.result /\ last.reqs = out.reqs

\* The last get was a metadata lookup at path p.
TargetsMetadata(p) ==
    last.result = MetadataAt(Snapshot(stores[1].snapshot), p) /\ last.reqs = <<>>

KeyGot == arg # <<>> /\ last.op = "get"

\* C2, as stated: "zarr.json" is the root's metadata, "{p}/zarr.json" the
\* metadata of the node at p, "{p}/c/{i0}/.../{ik}" with numeric tokens the
\* chunk (i0..ik) of the array node at p, and every other key a metadata
\* lookup at path = key.
C2_AsStated ==
    KeyGot =>
      /\ arg = <<ZarrJson>> => TargetsMetadata(EmptyStr)
      /\ IsMetadataKey(arg) => TargetsMetadata(Front(arg))
      /\ ~IsMetadataKey(arg) =>
            \A i \in NumericSplits(arg) :
                TargetsChunk(SubSeq(arg, 1, i - 1), Coordinates(arg, i))
      /\ (arg # <<ZarrJson>> /\ ~IsMetadataKey(arg) /\ NumericSplits(arg) = {}) =>
            TargetsMetadata(arg)

\* C2, amended: the same dispatch, for "{p}/zarr.json" with p not ending in
\* two or more '/', and with "every other key" being the keys that hold no
\* "/c/" followed by tokens.
C2_KeyGrammar ==
    KeyGot =>
      /\ arg = <<ZarrJson>> => TargetsMetadata(EmptyStr)
      /\ (IsMetadataKey(arg) /\ ~EndsWithSlashes(Front(arg))) =>
            TargetsMetadata(Front(arg))
      /\ ~IsMetadataKey(arg) =>
            \A i \in NumericSplits(arg) :
                TargetsChunk(SubSeq(arg, 1, i - 1), Coordinates(arg, i))
      /\ (arg # <<ZarrJson>> /\ ~IsMetadataKey(arg) /\ ChunkSplits(arg) = {}) =>
            TargetsMetadata(arg)

\* A get of a numeric chunk key that fetched the chunk of the array it names.
C2_Witness ==
    /\ KeyGot
    /\ ~IsMetadataKey(arg)
    /\ NumericSplits(arg) # {}
    /\ last.result.kind = "bytes"
    /\ Len(last.reqs) = 2

\* C3: a key "{p}/c/{tokens}" with a token that is not numeric (a letter
\* token, an empty token) makes get raise the bad-key error and issue no
\* request.
C3_BadKeyRaises ==
    (KeyGot /\ ~IsMetadataKey(arg) /\ ChunkSplits(arg) # {} /\ NumericSplits(arg) = {}) =>
        (last.result = Error("badkey") /\ last.reqs = <<>>)

(***************************************************************************)
(* Views.                                                                  *)
(***************************************************************************)
Views == {s \in 1..Len(stores) : stores[s].parent # 0}

\* View v holds the very snapshot, backend and manifest cache of store p.
SharesState(v, p) ==
    /\ stores[v].snapshot = stores[p].snapshot
    /\ stores[v].backend = stores[p].backend
    /\ stores[v].cache = stores[p].cache

\* The last get ran on a view.
ViewGot == last.op = "get" /\ last.store \in Views

\* The get just made on view v with key k did what parent.get(sub + "/" + k)
\* does from the same cache contents under the same network answers: same
\* result, same requests, same cache contents afterwards.
GotAsParent(v, p, sub) ==
    \E net \in Nets :
        GetOutcome(stores[p], JoinSlash(sub, last.key), last.before, caps[stores[p].cache], net)
          = Outcome(last.result, last.reqs, caches[stores[v].cache])

JoinedUnchanged(v) ==
    /\ stores[v].sub # EmptyStr
    /\ stores[v].basePath = FullKey(stores[stores[v].parent].basePath, stores[v].sub)

C6_CanonicalBasePath ==
    \A v \in Views : IsCanonical(stores[v].basePath)

(***************************************************************************)
(* The stand-alone cache.                                                  *)
(***************************************************************************)
\* The keys get would return a value for.
Retrievable(entries) == {k \in LruKeys : LRUValue(entries, k) # Undefined}

\* Where key k stands in the use history (0: never used).
UsedAt(k) ==
    IF \E i \in 1..Len(recency) : recency[i] = k
    THEN CHOOSE i \in 1..Len(recency) : recency[i] = k
    ELSE 0

\* Of the keys held by `entries`, the one whose latest set or hit is oldest.
LeastRecentlyUsed(entries) ==
    CHOOSE k \in LRUKeys(entries) : \A j \in LRUKeys(entries) : UsedAt(k) <= UsedAt(j)

\* C7: after any sequence of set / get / delete / clear, size is at most the
\* capacity and equals the number of distinct retrievable keys.
C7_SizeBounded ==
    lruCap > 0 =>
      /\ LRUSize(lru) <= lruCap
      /\ LRUSize(lru) = Cardinality(Retrievable(lru))

\* A delete took an entry out of a full cache.
C7_Witness ==
    /\ lruLast.op = "delete"
    /\ LRUSize(lruLast.before) = lruCap
    /\ LRUSize(lru) = lruCap - 1
    /\ lruCap >= 2

SetOverflows ==
    /\ lruLast.op = "set"
    /\ lruLast.key \notin LRUKeys(lruLast.before)
    /\ LRUSize(lruLast.before) = lruCap

\* C8: a set of a new key on a full cache evicts exactly one entry, the one
\* whose latest set or hit get is oldest; every other entry and the new one
\* remain retrievable.
C8_EvictsLeastRecent ==
    SetOverflows =>
      LET victim == LeastRecentlyUsed(lruLast.before)
      IN  /\ Retrievable(lru) = (Retrievable(lruLast.before) \ {victim}) \cup {lruLast.key}
          /\ LRUValue(lru, victim) = Undefined
          /\ LRUValue(lru, lruLast.key) = lruLast.value
          /\ \A k \in Retrievable(lruLast.before) \ {victim} :
                LRUValue(lru, k) = LRUValue(lruLast.before, k)

\* After every key had been used, an overflowing set on a cache of capacity
\* two or more evicted the least recently used entry.
C8_Witness ==
    /\ SetOverflows
    /\ lruCap >= 2
    /\ LRUValue(lru, LeastRecentlyUsed(lruLast.before)) = Undefined
    /\ Len(recency) = MaxKeys

SetExisting ==
    /\ lruLast.op = "set"
    /\ lruLast.key \in LRUKeys(lruLast.before)

\* C9: a set on a key already present replaces its value, changes neither
\* the size nor the other entries, and makes the key most recently used.
C9_SetExistingReplaces ==
    SetExisting =>
      /\ LRUValue(lru, lruLast.key) = lruLast.value
      /\ LRUSize(lru) = LRUSize(lruLast.before)
      /\ Retrievable(lru) = Retrievable(lruLast.before)
      /\ \A k \in Retrievable(lru) \ {lruLast.key} :
            LRUValue(lru, k) = LRUValue(lruLast.before, k)
      /\ Last(lru).key = lruLast.key
      /\ \A k \in LRUKeys(lru) : UsedAt(k) <= UsedAt(lruLast.key)

\* A set gave a new value to the least recently used key of a full cache.
C9_Witness ==
    /\ SetExisting
    /\ lruCap >= 2
    /\ LRUSize(lruLast.before) = lruCap
    /\ lruLast.before[1].key = lruLast.key
    /\ lruLast.before[1].value # lruLast.value
    /\ LRUValue(lru, lruLast.key) = lruLast.value

GetMisses ==
    /\ lruLast.op = "get"
    /\ lruLast.key \notin LRUKeys(lruLast.before)

\* C10: a get of an absent key returns undefined and changes nothing:
\* contents, size and recency order stay, so the next overflowing set evicts
\* the entry it would have evicted before.
C10_MissChangesNothing ==
    GetMisses =>
      /\ lruLast.result = Undefined
      /\ lru = lruLast.before
      /\ LRUSize(lru) = lruCap =>
            \A k \in LruKeys \ LRUKeys(lru), v \in LruValues :
                LRUKeys(lru) \ LRUKeys(LRUSet(lru, lruCap, k, v))
                  = {LeastRecentlyUsed(lruLast.before)}

\* A get missed on a full cache.
C10_Witness ==
    /\ GetMisses
    /\ LRUSize(lruLast.before) = lruCap
    /\ lruCap >= 2
    /\ lruLast.result = Undefined

(***************************************************************************)
(* Manifest loading.                                                       *)
(***************************************************************************)
\* The last get issued a manifest GET that failed, or whose body
\* decodeManifest raised on.
ManifestLoadFailed ==
    /\ last.op = "get"
    /\ LastFetches # <<>>
    /\ (~ResponseOk(LastFetches[1].status) \/ LastFetches[1].body # "manifest")

\* C11: a manifest enters the cache only after its fetch and its decode both
\* succeeded: when either fails, get raises and the cache holds exactly the
\* entries, values and order it held before the get.
C11_InsertAfterDecode ==
    /\ ManifestLoadFailed =>
          /\ last.result.kind = "error"
          /\ caches[LastStore.cache] = last.before
    /\ (last.op = "get" /\ LRUKeys(caches[LastStore.cache]) \ LRUKeys(last.before) # {}) =>
          /\ Len(LastFetches) = 1
          /\ ResponseOk(LastFetches[1].status)
          /\ LastFetches[1].body = "manifest"

\* A get whose manifest body did not decode, on a store whose cache already
\* held another manifest.
C11_Witness ==
    /\ ManifestLoadFailed
    /\ ResponseOk(LastFetches[1].status)
    /\ last.before # <<>>
    /\ last.result = Error("format")

(***************************************************************************)
(* Cancellation.                                                           *)
(***************************************************************************)
\* C12: the signal given to open is passed to every I/O call the store
\* issues: the ref GET, the snapshot GET, every manifest GET and every chunk
\* range GET.
C12_SignalEverywhere ==
    last.op \in {"open", "get"} =>
        \A i \in 1..Len(last.reqs) : last.reqs[i].signal = openedWith.signal

(***************************************************************************)
(* open's snapshot source.                                                 *)
(***************************************************************************)
\* The snapshot id each ref file of the repository names.
NamedBy(kind, name) ==
    CASE kind = "branch" /\ name = "main" -> "SA"
      [] kind = "branch" /\ name = "dev"  -> "SA"
      [] kind = "tag" /\ name = "v1"      -> "SB"

\* The last two segments of a URL.
UrlTail(url) == SubSeq(url, Len(url) - 1, Len(url))

\* C13: open uses exactly one snapshot source.  With options.snapshot no ref
\* file is fetched and snapshots/{id} is; otherwise with options.tag = T
\* exactly refs/tag.T/ref.json is fetched; otherwise exactly
\* refs/branch.B/ref.json with B = options.ref or "main"; in the ref cases
\* the ref GET comes first and the snapshot fetched is the one it names.
C13_OneSnapshotSource ==
    last.op = "open" =>
      LET o == openedWith
          kind == IF o.tag # None THEN "tag" ELSE "branch"
          name == IF o.tag # None THEN o.tag ELSE IF o.ref # None THEN o.ref ELSE "main"
      IN  IF o.snapshot # None
          THEN /\ Len(last.reqs) = 1
               /\ UrlTail(last.reqs[1].url) = <<"snapshots", o.snapshot>>
          ELSE /\ Len(last.reqs) \in {1, 2}
               /\ Last(last.reqs[1].url) = <<"refs", <<kind, name>>, "ref.json">>
               /\ Len(last.reqs) = 2 =>
                     /\ ResponseOk(last.reqs[1].status)
                     /\ UrlTail(last.reqs[2].url) = <<"snapshots", NamedBy(kind, name)>>
               /\ Len(last.reqs) = 1 => ~ResponseOk(last.reqs[1].status)

\* An open given both a tag and a ref fetched the tag's ref file, then the
\* snapshot it names.
C13_Witness ==
    /\ last.op = "open"
    /\ openedWith.tag # None
    /\ openedWith.ref # None
    /\ Len(last.reqs) = 2
    /\ last.store = 1

\* C14: open validates an explicit options.snapshot against the snapshot-id
\* shape before using it: a value that is not 20 Crockford Base32 characters
\* is rejected with a format error and no snapshot URL is built from it.
C14_SnapshotOptionValidated ==
    (last.op = "open" /\ openedWith.snapshot # None
       /\ ~isValidSnapshotId(IdText(openedWith.snapshot))) =>
        (last.result = Error("format") /\ last.reqs = <<>>)

(***************************************************************************)
(* core/ref: parseRefJson.  A JSON text is either malformed or denotes a   *)
(* value; an object is written as a sequence of "key": value members.      *)
(***************************************************************************)
JNull == [t |-> "null", s |-> <<>>, members |-> <<>>]
JNum == [t |-> "number", s |-> <<>>, members |-> <<>>]
JStr(s) == [t |-> "string", s |-> s, members |-> <<>>]
JArr(items) == [t |-> "array", s |-> <<>>, members |-> items]
JObj(members) == [t |-> "object", s |-> <<>>, members |-> members]

Malformed == [syntax |-> "invalid", value |-> JNull]
Text(v) == [syntax |-> "valid", value |-> v]

\* typeof obj
TypeOf(v) == IF v.t \in {"null", "array", "object"} THEN "object" ELSE v.t

\* Object.keys(obj): for an object parsed from text, its distinct member
\* names in order of first appearance; for an array, its indices.
RECURSIVE DistinctKeys(_, _)
DistinctKeys(members, seen) ==
    IF members = <<>> THEN <<>>
    ELSE IF members[1][1] \in seen THEN DistinctKeys(Tail(members), seen)
         ELSE <<members[1][1]>> \o DistinctKeys(Tail(members), seen \cup {members[1][1]})

ObjectKeys(v) ==
    CASE v.t = "object" -> DistinctKeys(v.members, {})
      [] v.t = "array"  -> [i \in 1..Len(v.members) |-> "index"]
      [] OTHER          -> <<>>

\* obj[name] for an object parsed from text: the last member of that name.
Property(v, name) ==
    LET at == {i \in 1..Len(v.members) : v.members[i][1] = name}
    IN  v.members[CHOOSE i \in at : \A j \in at : j <= i][2]

\* A decodeRef that only asks for a "snapshot" property.
decodeRefAllowExtra(obj) ==
    IF TypeOf(obj) # "object" \/ obj.t = "null" THEN Error("type")
    ELSE IF ~(\E i \in 1..Len(ObjectKeys(obj)) : ObjectKeys(obj)[i] = "snapshot")
    THEN Error("keys")
    ELSE IF TypeOf(Property(obj, "snapshot")) # "string" THEN Error("type")
    ELSE IF ~isValidSnapshotId(Property(obj, "snapshot").s) THEN Error("format")
    ELSE Value(Property(obj, "snapshot").s)

decodeRef(obj) ==
    IF TypeOf(obj) # "object" \/ obj.t = "null" THEN Error("type")
    ELSE IF Len(ObjectKeys(obj)) # 1 \/ ObjectKeys(obj)[1] # "snapshot" THEN Error("keys")
    ELSE IF TypeOf(Property(obj, "snapshot")) # "string" THEN Error("type")
    ELSE IF ~isValidSnapshotId(Property(obj, "snapshot").s) THEN Error("format")
    ELSE Value(Property(obj, "snapshot").s)

\* JSON.parse(text), then decodeRef.
parseRefJson(text) ==
    IF text.syntax # "valid" THEN Error("syntax") ELSE decodeRef(text.value)

\* Strings offered as snapshot ids.
Repeat(c, n) == [i \in 1..n |-> c]
IdStrings ==
    { IdText("SA"), Repeat("z", IdLength), Repeat("0", IdLength - 1) \o <<"L">>,
      Repeat("0", IdLength - 1) \o <<"U">>, Repeat("0", IdLength - 1) \o <<"!">>,
      Repeat("0", IdLength - 1), Repeat("0", IdLength + 1), <<>> }

\* Values offered as property values, and the ref texts built from them.
RefValues ==
    {JStr(id) : id \in IdStrings} \cup {JNull, JNum, JArr(<<>>)}
RefNames == {"snapshot", "Snapshot", "extra"}
RefMembers == {<<k, v>> : k \in RefNames, v \in RefValues}
RefTexts ==
    {Malformed}
      \cup {Text(v) : v \in RefValues}
      \cup {Text(JArr(<<JStr(IdText("SA"))>>))}
      \cup {Text(JObj(ms)) : ms \in SeqsUpTo(RefMembers, MaxProps)}

(***************************************************************************)
(* encoding/crockford-base32.  The accumulator is a 32-bit integer, kept   *)
(* here as the two 16-bit halves of its bit pattern.                       *)
(***************************************************************************)
ALPHABET ==
    <<"0", "1", "2", "3", "4", "5", "6", "7", "8", "9", "A", "B", "C", "D", "E", "F",
      "G", "H", "J", "K", "M", "N", "P", "Q", "R", "S", "T", "V", "W", "X", "Y", "Z">>

Pow2(n) == 2 ^ n
Half == Pow2(16)
Word(hi, lo) == [hi |-> hi, lo |-> lo]
Zero == Word(0, 0)

\* (value << n) on 32 bits, n <= 16: the bits shifted out of the top are lost.
ShiftLeft(value, n) ==
    Word((value.hi * Pow2(n) + (value.lo * Pow2(n)) \div Half) % Half,
         (value.lo * Pow2(n)) % Half)
\* (value >>> n), n <= 16.
ShiftRight(value, n) ==
    Word(value.hi \div Pow2(n),
         (value.lo \div Pow2(n) + (value.hi % Pow2(n)) * Pow2(16 - n)) % Half)
\* value | x, where the bits of x are clear in value.
Or(value, x) == Word(value.hi, value.lo + x)
\* value & mask, for a mask of low bits: mask + 1 is the modulus.
And(value, mask) == value.lo % (mask + 1)

\* DECODE_MAP[char]: the alphabet in both cases, O for 0, I and L for 1;
\* -1 stands for undefined.
\* A decoding map that knows the upper-case characters only.
DECODE_MAPUpperOnly(char) ==
    IF \E i \in 1..Len(ALPHABET) : ALPHABET[i] = char
    THEN (CHOOSE i \in 1..Len(ALPHABET) : ALPHABET[i] = char) - 1
    ELSE IF char = "O" THEN 0
    ELSE IF char \in {"I", "L"} THEN 1
    ELSE -1

DECODE_MAP(char) ==
    LET c == ToUpper(char)
    IN  IF \E i \in 1..Len(ALPHABET) : ALPHABET[i] = c
        THEN (CHOOSE i \in 1..Len(ALPHABET) : ALPHABET[i] = c) - 1
        ELSE IF c = "O" THEN 0
        ELSE IF c \in {"I", "L"} THEN 1
        ELSE -1

\* for (bits += 8; bits >= 5; bits -= 5) output += ALPHABET[(value >>> (bits - 5)) & 31]
RECURSIVE EmitChars(_, _, _)
EmitChars(value, bits, output) ==
    IF bits >= 5
    THEN EmitChars(value, bits - 5,
                   Append(output, ALPHABET[And(ShiftRight(value, bits - 5), 31) + 1]))
    ELSE [bits |-> bits, output |-> output]

\* An encoder that drops the bits left over after the last whole character.
RECURSIVE EncodeNoTail(_, _, _, _, _)
EncodeNoTail(input, i, value, bits, output) ==
    IF i > Len(input) THEN output
    ELSE LET v == Or(ShiftLeft(value, 8), input[i])
             e == EmitChars(v, bits + 8, output)
         IN  EncodeNoTail(input, i + 1, v, e.bits, e.output)
crockfordBase32EncodeNoTail(input) == EncodeNoTail(input, 1, Zero, 0, <<>>)

RECURSIVE EncodeFrom(_, _, _, _, _)
EncodeFrom(input, i, value, bits, output) ==
    IF i > Len(input)
    THEN IF bits > 0
         THEN Append(output, ALPHABET[And(ShiftLeft(value, 5 - bits), 31) + 1])
         ELSE output
    ELSE LET v == Or(ShiftLeft(value, 8), input[i])
             e == EmitChars(v, bits + 8, output)
         IN  EncodeFrom(input, i + 1, v, e.bits, e.output)

crockfordBase32Encode(input) == EncodeFrom(input, 1, Zero, 0, <<>>)

\* The bytes the decoding loop writes, in order; "invalid" once a character
\* has no entry in DECODE_MAP.
RECURSIVE DecodeFrom(_, _, _, _, _)
DecodeFrom(input, i, value, bits, written) ==
    IF i > Len(input) THEN [ok |-> TRUE, written |-> written]
    ELSE IF DECODE_MAP(input[i]) = -1 THEN [ok |-> FALSE, written |-> written]
    ELSE LET v == Or(ShiftLeft(value, 5), DECODE_MAP(input[i]))
             b == bits + 5
         IN  IF b >= 8
             THEN DecodeFrom(input, i + 1, v, b - 8,
                             Append(written, And(ShiftRight(v, b - 8), 255)))
             ELSE DecodeFrom(input, i + 1, v, b, written)

\* The output has floor(5 * length / 8) bytes, zero where nothing was written.
crockfordBase32Decode(input) ==
    LET numBytes == (Len(input) * 5) \div 8
        d == DecodeFrom(input, 1, Zero, 0, <<>>)
    IN  IF ~d.ok THEN Error("format")
        ELSE Value([i \in 1..numBytes |-> IF i <= Len(d.written) THEN d.written[i] ELSE 0])

(***************************************************************************)
(* core/decode: the envelope.  A file is the sequence of its bytes.        *)
(***************************************************************************)
MAGIC == <<73, 67, 69, 240, 159, 167, 138, 67, 72, 85, 78, 75>>
MAGIC_SIZE == 12
VERSION_STRING_SIZE == 24
HEADER_SIZE == 39
LATEST_SPEC_VERSION == 1
ICECHUNK_FILE_ID == <<73, 99, 104, 107>>

Min(a, b) == IF a <= b THEN a ELSE b

\* data.slice(from, to), from and to counted from 0.
Slice(data, from, to) == SubSeq(data, from + 1, Min(to, Len(data)))

\* text.trim(), on bytes: the spaces at both ends go.
RECURSIVE TrimLeft(_)
TrimLeft(b) == IF b # <<>> /\ b[1] = 32 THEN TrimLeft(Tail(b)) ELSE b
RECURSIVE TrimRight(_)
TrimRight(b) == IF b # <<>> /\ b[Len(b)] = 32 THEN TrimRight(Front(b)) ELSE b
Trim(b) == TrimRight(TrimLeft(b))

parseEnvelopeHeader(data) ==
    IF Len(data) < HEADER_SIZE THEN Error("short")
    ELSE IF \E i \in 1..Len(MAGIC) : data[i] # MAGIC[i] THEN Error("magic")
    ELSE IF data[MAGIC_SIZE + VERSION_STRING_SIZE + 1] > LATEST_SPEC_VERSION
    THEN Error("version")
    ELSE Value([versionString |-> Trim(Slice(data, MAGIC_SIZE, MAGIC_SIZE + VERSION_STRING_SIZE)),
                specVersion |-> data[MAGIC_SIZE + VERSION_STRING_SIZE + 1],
                fileType |-> data[MAGIC_SIZE + VERSION_STRING_SIZE + 2],
                compression |-> data[MAGIC_SIZE + VERSION_STRING_SIZE + 3]])

\* fzstd's decompress, on the frames of the model: a frame is the zstd magic
\* number followed by the content; anything else is not a frame.
ZstdMagic == <<40, 181, 47, 253>>
ZstdFrame(content) == ZstdMagic \o content
zstdDecompress(data) ==
    IF Len(data) >= 4 /\ SubSeq(data, 1, 4) = ZstdMagic
    THEN Value(SubSeq(data, 5, Len(data)))
    ELSE Error("zstd")

\* A decompress that passes every payload through.
decompressNever(data, compression) ==
    IF compression \in {0, 1} THEN Value(data) ELSE Error("compression")

decompress(data, compression) ==
    CASE compression = 0 -> Value(data)
      [] compression = 1 -> zstdDecompress(data)
      [] OTHER           -> Error("compression")

decodeEnvelope(data) ==
    LET header == parseEnvelopeHeader(data)
    IN  IF header.kind = "error" THEN header
        ELSE LET decompressed == decompress(Slice(data, HEADER_SIZE, Len(data)),
                                            header.data.compression)
             IN  IF decompressed.kind = "error" THEN decompressed
                 ELSE IF Slice(decompressed.data, 4, 8) # ICECHUNK_FILE_ID
                 THEN Error("fileid")
                 ELSE Value([header |-> header.data, buffer |-> decompressed.data])

\* core/ref: the snapshot read from the table of a decoded envelope.  The
\* header of the envelope is dropped; the fields come from the buffer alone.
readSnapshot(bb) == [rootOffset |-> bb[1], fields |-> Slice(bb, 8, Len(bb))]
decodeSnapshot(data) ==
    LET envelope == decodeEnvelope(data)
    IN  IF envelope.kind = "error" THEN envelope
        ELSE Value(readSnapshot(envelope.data.buffer))

\* Files offered to the decoders.
Table == <<8, 0, 0, 0>> \o ICECHUNK_FILE_ID \o <<1, 2>>
BadIdTable == <<8, 0, 0, 0>> \o <<73, 99, 104, 120>> \o <<1, 2>>
Payloads == {Table, BadIdTable, <<8, 0, 0, 0, 73>>, ZstdFrame(Table), ZstdFrame(BadIdTable)}
Magics == {MAGIC, [MAGIC EXCEPT ![1] = 105], [MAGIC EXCEPT ![12] = 0]}
VersionString == <<105, 99, 45, 48, 46, 51>> \o [i \in 1..18 |-> 32]
File(magic, spec, type, compression, payload) ==
    magic \o VersionString \o <<spec, type, compression>> \o payload
Files ==
    {File(mg, sv, ft, cm, pl) : mg \in Magics, sv \in {0, 1, 2}, ft \in 0..3,
                                cm \in {0, 1, 2}, pl \in Payloads}
      \cup {SubSeq(File(MAGIC, 1, 0, 0, Table), 1, n) : n \in {0, 11, 38, 39}}

(***************************************************************************)
(* Manifest decoding.  A ChunkRef table has the fields index, inline,      *)
(* offset, length, chunk_id and location; each is missing from the vtable  *)
(* or present with a value.  Byte vectors are tokens with "" the empty     *)
(* vector.                                                                 *)
(***************************************************************************)
Missing(default) == [present |-> FALSE, v |-> default]
Present(v) == [present |-> TRUE, v |-> v]
ChunkRef(index, inline, offset, length, chunk_id, location) ==
    [index |-> index, inline |-> inline, offset |-> offset, length |-> length,
     chunk_id |-> chunk_id, location |-> location]

readString(table, field) == IF ~table[field].present THEN EmptyStr ELSE table[field].v
readVectorLength(table, field) == IF ~table[field].present THEN 0 ELSE Len(table[field].v)
readByteVector(table, field) == IF ~table[field].present THEN "" ELSE table[field].v
readUint64(table, field) == IF table[field].present THEN table[field].v ELSE 0

\* `null`, where parseChunkRef has a result.
NullChunk == [coords |-> <<>>, payload |-> NoPayload]

\* A parseChunkRef that looks at chunk_id before location.
parseChunkRefNativeFirst(table) ==
    LET coords == IF readVectorLength(table, "index") > 0 THEN table.index.v ELSE <<>>
        chunkOffset == readUint64(table, "offset")
        chunkLength == readUint64(table, "length")
        inlineData == readByteVector(table, "inline")
        location == readString(table, "location")
    IN  IF inlineData # ""
        THEN [coords |-> coords, payload |-> Inline(inlineData)]
        ELSE IF table.chunk_id.present
        THEN [coords |-> coords,
              payload |-> Native(table.chunk_id.v, chunkOffset, chunkLength)]
        ELSE IF location # EmptyStr
        THEN [coords |-> coords, payload |-> Virtual(location, chunkOffset, chunkLength)]
        ELSE NullChunk

parseChunkRef(table) ==
    LET coords == IF readVectorLength(table, "index") > 0 THEN table.index.v ELSE <<>>
        chunkOffset == readUint64(table, "offset")
        chunkLength == readUint64(table, "length")
        inlineData == readByteVector(table, "inline")
        location == readString(table, "location")
    IN  IF inlineData # ""
        THEN [coords |-> coords, payload |-> Inline(inlineData)]
        ELSE IF location # EmptyStr
        THEN [coords |-> coords, payload |-> Virtual(location, chunkOffset, chunkLength)]
        ELSE IF table.chunk_id.present
        THEN [coords |-> coords,
              payload |-> Native(table.chunk_id.v, chunkOffset, chunkLength)]
        ELSE NullChunk

\* coords.join("/"), in the segment form of strings.
JoinCoords(coords) ==
    IF coords = <<>> THEN EmptyStr ELSE [i \in 1..Len(coords) |-> ToString(coords[i])]

\* Map.set on a map kept as its entries in insertion order.
MapSet(map, key, value) ==
    IF \E i \in 1..Len(map) : map[i][1] = key
    THEN [i \in 1..Len(map) |-> IF map[i][1] = key THEN <<key, value>> ELSE map[i]]
    ELSE Append(map, <<key, value>>)

\* The loop of decodeManifest over the refs of one ArrayManifest, from ref j.
RECURSIVE ParseRefs(_, _, _)
ParseRefs(refs, j, chunkMap) ==
    IF j > Len(refs) THEN chunkMap
    ELSE LET result == parseChunkRef(refs[j])
         IN  ParseRefs(refs, j + 1,
                       IF result # NullChunk
                       THEN MapSet(chunkMap, JoinCoords(result.coords), result.payload)
                       ELSE chunkMap)

\* The loop of decodeManifest over the ArrayManifests, from array i.
RECURSIVE ParseArrays(_, _, _)
ParseArrays(arrays, i, chunks) ==
    IF i > Len(arrays) THEN chunks
    ELSE ParseArrays(arrays, i + 1,
                     MapSet(chunks, arrays[i].node_id, ParseRefs(arrays[i].refs, 1, <<>>)))

\* decodeManifest on the table inside the envelope.
decodeManifest(table) == [id |-> table.id, chunks |-> ParseArrays(table.arrays, 1, <<>>)]

(***************************************************************************)
(* The concurrent specification: get calls in flight on a store and its    *)
(* resolve view, which share one manifest cache.  A call runs to its next  *)
(* await of the backend: the manifest GET or the chunk range GET.  The     *)
(* server answers every request of a run alike (arg.net).  arg.calls keeps *)
(* each call: its store and key, where it waits, what it waits for, the    *)
(* requests it issued and its settled result.                              *)
(***************************************************************************)
MaxCalls == 2

\* The get calls made: (store, key).
ConcCalls ==
    { <<1, <<"a", "a", "c", "0">> >>, <<2, <<"a", "c", "0">> >>,
      <<2, <<"c", "c", "0", "0">> >>, <<1, <<"c", "c", "0">> >>,
      <<1, <<"c", "c", "1">> >>, <<2, <<ZarrJson>> >> }

GetCall(s, key, pc, id, payload, reqs, result) ==
    [store |-> s, key |-> key, pc |-> pc, id |-> id, payload |-> payload,
     reqs |-> reqs, result |-> result]
Settled(s, key, reqs, result) == GetCall(s, key, "done", "", NoPayload, reqs, result)

\* getChunk from the return of fetchManifest on: findChunk, then
\* fetchChunkData up to its await.
AfterManifest(s, key, manifest, reqs) ==
    LET parsed == parseKey(FullKey(stores[s].basePath, key))
        node == findNode(Snapshot(stores[s].snapshot), parsed.path)
        chunkPayload == findChunk(manifest, node.id, parsed.chunkCoords)
        fc == fetchChunkData(stores[s].rootUrl, chunkPayload, arg.net)
    IN  IF chunkPayload = NoPayload THEN Settled(s, key, reqs, Absent)
        ELSE IF chunkPayload.type = "inline" THEN Settled(s, key, reqs, fc.result)
        ELSE GetCall(s, key, "chunk", "", chunkPayload, reqs \o fc.reqs, Absent)

\* get(key) on store s up to its first await; `entries` is the cache n.
StartedCall(s, key, entries) ==
    LET store == stores[s]
        parsed == parseKey(FullKey(store.basePath, key))
        snapshot == Snapshot(store.snapshot)
        node == findNode(snapshot, parsed.path)
        manifestRef == findManifestForChunk(node.nodeData.manifests, parsed.chunkCoords)
        cached == LRUValue(entries, manifestRef.id)
    IN  IF store.snapshot = "null" THEN Settled(s, key, <<>>, Error("notinit"))
        ELSE IF parsed.type = "error" THEN Settled(s, key, <<>>, Error("badkey"))
        ELSE IF parsed.type = "metadata"
        THEN Settled(s, key, <<>>, getMetadata(snapshot, parsed.path, entries).result)
        ELSE IF node = NoNode THEN Settled(s, key, <<>>, Absent)
        ELSE IF node.nodeData.type # "array" THEN Settled(s, key, <<>>, Absent)
        ELSE IF manifestRef = NoRef THEN Settled(s, key, <<>>, Absent)
        ELSE IF cached # Undefined THEN AfterManifest(s, key, cached, <<>>)
        ELSE GetCall(s, key, "manifest", manifestRef.id, NoPayload,
                     <<FetchReq(getManifestUrl(store.rootUrl, manifestRef.id), NoSignal,
                                arg.net.m, arg.net.b)>>, Absent)

\* The manifest id fetchManifest looks up for get(key) on store s, "" if the
\* get does not come to fetchManifest.
LookedUp(s, key) ==
    LET parsed == parseKey(FullKey(stores[s].basePath, key))
        node == findNode(Snapshot(stores[s].snapshot), parsed.path)
        manifestRef == findManifestForChunk(node.nodeData.manifests, parsed.chunkCoords)
    IN  IF parsed.type # "chunk" \/ node = NoNode THEN ""
        ELSE IF node.nodeData.type # "array" \/ manifestRef = NoRef THEN ""
        ELSE manifestRef.id

InitConc ==
    /\ stores = << NewStore(<<"https:", "", "h", "r">>, EmptyStr, "SA", 1, 0, <<>>),
                   NewStore(<<"https:", "", "h", "r">>, <<"a">>, "SA", 1, 1, <<"a">>) >>
    /\ caches = << <<>>, <<>> >>
    /\ \E cap \in 1..MaxCap : caps = <<cap, DefaultManifestCapacity>>
    /\ last = NoCall
    /\ \E net \in Nets : arg = [net |-> net, calls |-> <<>>]
    /\ lru = <<>>
    /\ lruCap = 0
    /\ lruLast = NoLruCall
    /\ recency = <<>>
    /\ openedWith = NoOptions

\* get(key) is called on store s and runs to its first await or to its end;
\* manifestCache.get refreshes the entry it hits.
StartGet(s, key) ==
    /\ Len(arg.calls) < MaxCalls
    /\ LET c == stores[s].cache
       IN  /\ arg' = [arg EXCEPT !.calls = Append(@, StartedCall(s, key, caches[c]))]
           /\ caches' = [caches EXCEPT ![c] = LRUGet(@, LookedUp(s, key))]
    /\ UNCHANGED <<stores, caps, last, lru, lruCap, lruLast, recency, openedWith>>

\* The manifest GET of call i is answered: fetch throws on a status that is
\* not ok, decodeManifest on a malformed body; else the cache is set and
\* getChunk goes on.
ManifestArrived(i) ==
    /\ i \in 1..Len(arg.calls)
    /\ arg.calls[i].pc = "manifest"
    /\ LET call == arg.calls[i]
           c == stores[call.store].cache
       IN  IF ~ResponseOk(arg.net.m)
           THEN /\ arg' = [arg EXCEPT !.calls[i] =
                                 Settled(call.store, call.key, call.reqs, Error("io"))]
                /\ UNCHANGED caches
           ELSE IF arg.net.b # "manifest"
           THEN /\ arg' = [arg EXCEPT !.calls[i] =
                                 Settled(call.store, call.key, call.reqs, Error("format"))]
                /\ UNCHANGED caches
           ELSE /\ arg' = [arg EXCEPT !.calls[i] =
                                 AfterManifest(call.store, call.key, call.id, call.reqs)]
                /\ caches' = [caches EXCEPT ![c] = LRUSet(@, caps[c], call.id, call.id)]
    /\ UNCHANGED <<stores, caps, last, lru, lruCap, lruLast, recency, openedWith>>

\* The chunk range GET of call i is answered.
ChunkArrived(i) ==
    /\ i \in 1..Len(arg.calls)
    /\ arg.calls[i].pc = "chunk"
    /\ LET call == arg.calls[i]
       IN  arg' = [arg EXCEPT !.calls[i] =
                       Settled(call.store, call.key, call.reqs,
                               fetchChunkData(stores[call.store].rootUrl, call.payload,
                                              arg.net).result)]
    /\ UNCHANGED <<stores, caches, caps, last, lru, lruCap, lruLast, recency, openedWith>>

NextConc ==
    \/ \E call \in ConcCalls : StartGet(call[1], call[2])
    \/ \E i \in 1..MaxCalls : ManifestArrived(i)
    \/ \E i \in 1..MaxCalls : ChunkArrived(i)

SpecConc == InitConc /\ [][NextConc]_vars

(***************************************************************************)
(* The function specification: one pure function applied to one input.     *)
(***************************************************************************)
\* Snapshots offered to findNode: the nodes are in the order of the file
\* format, ascending by the code units of their paths.
MaxNodes == 3
UnitRank(a) ==
    CASE a = ""  -> 0
      [] a = "0" -> 1
      [] a = "1" -> 2
      [] a = "B" -> 3
      [] a = "a" -> 4
      [] a = "b" -> 5
      [] a = "c" -> 6
      [] a = "zarr.json" -> 7
Lexicographic(x, y) ==
    CompareRanks([i \in 1..Len(x) |-> UnitRank(x[i])], [i \in 1..Len(y) |-> UnitRank(y[i])])
NodePaths == {EmptyStr, <<"B">>, <<"a">>, <<"b">>, <<"a", "B">>}
SortedPathLists ==
    {s \in SeqsUpTo(NodePaths, MaxNodes) :
        \A i \in 1..Len(s) : \A j \in 1..Len(s) : i < j => Lexicographic(s[i], s[j]) < 0}
NodesOf(paths) ==
    [i \in 1..Len(paths) |->
        [id |-> "N0", userAttributes |-> Attributes(JsUndefined, ""), path |-> paths[i],
         nodeData |-> Group]]
FindPaths ==
    NodePaths \cup {<<"", "">>}
      \cup {<<"">> \o q : q \in NodePaths \ {EmptyStr}}
      \cup {q \o <<"">> : q \in NodePaths \ {EmptyStr}}

\* Snapshots and paths offered to listChildren.
ListedPaths == {EmptyStr, <<"a">>, <<"a", "b">>, <<"a", "b", "c">>, <<"ab">>, <<"ab", "c">>, <<"b">>}
ListedNodes == {NodesOf(ps) : ps \in SeqsUpTo(ListedPaths, MaxNodes)}
ParentPaths ==
    {EmptyStr, <<"", "">>, <<"a">>, <<"", "a">>, <<"a", "">>, <<"", "a", "">>,
     <<"ab">>, <<"a", "b">>, <<"b">>, <<"c">>}

\* ChunkRef tables offered to decodeManifest: every combination of a missing,
\* an empty and a filled inline vector and location and a missing and a
\* present chunk_id, at two coordinates; and two tables whose offset and
\* length are missing.
MaxRefs == 2
ChunkRefTables ==
    { ChunkRef(Present(<<c>>), inline, Present(4), Present(8), chunk_id, location) :
        c \in 0..1,
        inline \in {Missing(""), Present(""), Present("D1")},
        chunk_id \in {Missing(""), Present("K1")},
        location \in {Missing(EmptyStr), Present(EmptyStr), Present(<<"s3:", "", "b", "k">>)} }
    \cup { ChunkRef(Present(<<0>>), Missing(""), Missing(0), Missing(0), Present("K1"),
                    location) :
             location \in {Missing(EmptyStr), Present(<<"s3:", "", "b", "k">>)} }
ManifestTables ==
    { [id |-> "M1", arrays |-> <<[node_id |-> "N1", refs |-> refs]>>] :
        refs \in SeqsUpTo(ChunkRefTables, MaxRefs) }

\* Nodes offered to encodeZarrJson.
ZarrFormats ==
    {JsUndefined, JsNull, JsNumber(0), JsNumber(1), JsNumber(2), JsNumber(3), JsNumber(4),
     JsString("3"), JsString(""), JsBoolean(TRUE), JsBoolean(FALSE)}
NodeDatas == {Group, Array(<<>>), [Array(<<>>) EXCEPT !.zarrMetadata = ZarrMetadata("dot")]}
EncodedNodes ==
    {[id |-> "N0", userAttributes |-> Attributes(zf, rest), path |-> <<"a">>, nodeData |-> nd] :
        zf \in ZarrFormats, rest \in {"", "attrs"}, nd \in NodeDatas}

\* Texts offered to the decoder.
MaxChars == 3
TextChars == {"0", "1", "A", "a", "O", "o", "I", "l", "U", "z", "-"}
CrockfordTexts == SeqsUpTo(TextChars, MaxChars)

\* Byte vectors offered to the encoder: twelve equal bytes, then at most
\* MaxOdd of them replaced.
IdBytes == 12
MaxOdd == 2
ByteValues == {0, 90, 165, 255}
RECURSIVE Replaced(_, _)
Replaced(vectors, n) ==
    IF n = 0 THEN vectors
    ELSE Replaced(vectors, n - 1)
           \cup {[v EXCEPT ![i] = b] : v \in Replaced(vectors, n - 1), i \in 1..IdBytes, b \in ByteValues}
ByteVectors == Replaced({[i \in 1..IdBytes |-> b] : b \in {0, 255}}, MaxOdd)

\* Coordinate vectors and extent lists offered to isChunkInExtent.
MaxRank == 2
MaxCoord == 2
CoordVectors == SeqsUpTo(0..MaxCoord, MaxRank)
Extents == {<<a, b>> : a \in 0..MaxCoord, b \in 0..MaxCoord}
ExtentLists == SeqsUpTo(Extents, MaxRank)

FnArg(fn, in) == [fn |-> fn, in |-> in]

InitFn ==
    /\ stores = <<>>
    /\ caches = <<>>
    /\ caps = <<>>
    /\ last = NoCall
    /\ \/ \E t \in RefTexts : arg = FnArg("parseRefJson", t)
       \/ \E f \in Files : arg = FnArg("decodeEnvelope", f)
       \/ \E f \in Files : arg = FnArg("decodeSnapshot", f)
       \/ \E ps \in SortedPathLists, q \in FindPaths :
             arg = FnArg("findNode", [snapshot |-> [id |-> "SA", nodes |-> NodesOf(ps)], path |-> q])
       \/ \E b \in ByteVectors : arg = FnArg("crockfordBase32Encode", b)
       \/ \E t \in CrockfordTexts : arg = FnArg("crockfordBase32Decode", t)
       \/ \E n \in EncodedNodes : arg = FnArg("encodeZarrJson", n)
       \/ \E t \in ManifestTables : arg = FnArg("decodeManifest", t)
       \/ \E ns \in ListedNodes, q \in ParentPaths :
             arg = FnArg("listChildren", [snapshot |-> [id |-> "SA", nodes |-> ns], path |-> q])
       \/ \E c \in CoordVectors, e \in ExtentLists :
             arg = FnArg("isChunkInExtent", [chunkCoords |-> c, extents |-> e])
    /\ lru = <<>>
    /\ lruCap = 0
    /\ lruLast = NoLruCall
    /\ recency = <<>>
    /\ openedWith = NoOptions

\* The function returned `result`.
Returned(fn, result) ==
    /\ arg.fn = fn
    /\ last.op = "none"
    /\ last' = Call(fn, 0, <<>>, result, <<>>, <<>>)
    /\ UNCHANGED <<stores, caches, caps, arg, lru, lruCap, lruLast, recency, openedWith>>

ParseRefJson == Returned("parseRefJson", parseRefJson(arg.in))

DecodeEnvelope == Returned("decodeEnvelope", decodeEnvelope(arg.in))

DecodeSnapshot == Returned("decodeSnapshot", decodeSnapshot(arg.in))

IsChunkInExtent ==
    Returned("isChunkInExtent", Value(isChunkInExtent(arg.in.chunkCoords, arg.in.extents)))

FindNode == Returned("findNode", Value(findNode(arg.in.snapshot, arg.in.path)))

CrockfordBase32Encode ==
    Returned("crockfordBase32Encode", Value(crockfordBase32Encode(arg.in)))

\* The identifier just encoded is decoded again, or the text offered is
\* decoded.
CrockfordBase32Decode ==
    \/ /\ last.op = "crockfordBase32Encode"
       /\ last' = Call("crockfordBase32Decode", 0, last.result.data,
                        crockfordBase32Decode(last.result.data), <<>>, <<>>)
       /\ UNCHANGED <<stores, caches, caps, arg, lru, lruCap, lruLast, recency, openedWith>>
    \/ Returned("crockfordBase32Decode", crockfordBase32Decode(arg.in))

EncodeZarrJson == Returned("encodeZarrJson", Value(encodeZarrJson(arg.in)))

ListChildren == Returned("listChildren", Value(listChildren(arg.in.snapshot, arg.in.path)))

DecodeManifest == Returned("decodeManifest", Value(decodeManifest(arg.in)))

NextFn ==
    \/ ParseRefJson
    \/ DecodeEnvelope
    \/ DecodeSnapshot
    \/ IsChunkInExtent
    \/ FindNode
    \/ CrockfordBase32Encode
    \/ CrockfordBase32Decode
    \/ EncodeZarrJson
    \/ ListChildren
    \/ DecodeManifest

SpecFn == InitFn /\ [][NextFn]_vars

\* The text is a JSON object whose only property is "snapshot", a string
\* that isValidSnapshotId accepts.
IsRefText(text) ==
    /\ text.syntax = "valid"
    /\ text.value.t = "object"
    /\ {text.value.members[i][1] : i \in 1..Len(text.value.members)} = {"snapshot"}
    /\ Property(text.value, "snapshot").t = "string"
    /\ isValidSnapshotId(Property(text.value, "snapshot").s)

\* C15: parseRefJson(text) returns the snapshot id if and only if text is a
\* JSON object with exactly one property, "snapshot", whose value is a string
\* isValidSnapshotId accepts; in every other case it raises.
C15_ParseRefJson ==
    last.op = "parseRefJson" =>
        IF IsRefText(arg.in)
        THEN last.result = Value(Property(arg.in.value, "snapshot").s)
        ELSE last.result.kind = "error"

\* A ref text with the snapshot property and an extra one was rejected.
C15_Witness ==
    /\ last.op = "parseRefJson"
    /\ arg.in.syntax = "valid"
    /\ arg.in.value = JObj(<< <<"snapshot", JStr(IdText("SA"))>>, <<"extra", JNum>> >>)
    /\ last.result.kind = "error"

(***************************************************************************)
(* The envelope, read off the bytes of the file.                           *)
(***************************************************************************)
MagicDiffers(f) ==
    Len(f) < 12 \/ SubSeq(f, 1, 12) # <<73, 67, 69, 240, 159, 167, 138, 67, 72, 85, 78, 75>>
HasHeader(f) == Len(f) >= 39
SpecVersionByte(f) == f[37]
FileTypeByte(f) == f[38]
CompressionByte(f) == f[39]
PayloadOf(f) == SubSeq(f, 40, Len(f))
\* The payload once decompressed as the compression byte says, where that
\* can be done.
Decompressible(f) ==
    CompressionByte(f) = 0 \/ (CompressionByte(f) = 1 /\ zstdDecompress(PayloadOf(f)).kind = "value")
Decompressed(f) ==
    IF CompressionByte(f) = 1 THEN zstdDecompress(PayloadOf(f)).data ELSE PayloadOf(f)
HasFileId(b) == Len(b) >= 8 /\ SubSeq(b, 5, 8) = <<73, 99, 104, 107>>

\* C16: decodeEnvelope raises when the first 12 bytes differ from the magic,
\* the spec-version byte exceeds 1, the compression byte is neither 0 nor 1,
\* or bytes 4..8 of the decompressed payload are not "Ichk"; otherwise it
\* returns the payload, zstd-decompressed exactly when the compression byte
\* is 1 and unchanged when it is 0.
C16_EnvelopeChecks ==
    last.op = "decodeEnvelope" =>
      LET f == arg.in
      IN  /\ MagicDiffers(f) => last.result.kind = "error"
          /\ (HasHeader(f) /\ SpecVersionByte(f) > 1) => last.result.kind = "error"
          /\ (HasHeader(f) /\ CompressionByte(f) \notin {0, 1}) => last.result.kind = "error"
          /\ (HasHeader(f) /\ Decompressible(f) /\ ~HasFileId(Decompressed(f))) =>
                last.result.kind = "error"
          /\ (~MagicDiffers(f) /\ HasHeader(f) /\ SpecVersionByte(f) <= 1
                /\ Decompressible(f) /\ HasFileId(Decompressed(f))) =>
                (last.result.kind = "value" /\ last.result.data.buffer = Decompressed(f))

\* A zstd-compressed file was decoded to its decompressed table.
C16_Witness ==
    /\ last.op = "decodeEnvelope"
    /\ HasHeader(arg.in)
    /\ CompressionByte(arg.in) = 1
    /\ last.result.kind = "value"
    /\ last.result.data.buffer = Table

\* C17: decodeSnapshot returns no Snapshot for a file whose type byte says
\* manifest (1), transaction log (2) or attribute file (3).
C17_SnapshotFilesOnly ==
    (last.op = "decodeSnapshot" /\ HasHeader(arg.in) /\ FileTypeByte(arg.in) \in {1, 2, 3}) =>
      last.result.kind # "value"

(***************************************************************************)
(* Extents.                                                                *)
(***************************************************************************)
Within(c, e) ==
    /\ Len(c) = Len(e)
    /\ \A i \in 1..Len(c) : e[i][1] <= c[i] /\ c[i] <= e[i][2]

\* C18: isChunkInExtent(c, e) is true exactly when c and e have the same
\* length and every c[i] lies in [e[i].start, e[i].end], both ends included;
\* the rank-0 vector is inside the empty extent list, and vectors of
\* different lengths are never inside.
C18_InExtentIff ==
    last.op = "isChunkInExtent" =>
      LET c == arg.in.chunkCoords
          e == arg.in.extents
      IN  /\ last.result = Value(Within(c, e))
          /\ (c = <<>> /\ e = <<>>) => last.result = Value(TRUE)
          /\ Len(c) # Len(e) => last.result = Value(FALSE)

\* A coordinate on the upper end of an extent was found inside it.
C18_Witness ==
    /\ last.op = "isChunkInExtent"
    /\ Len(arg.in.chunkCoords) = MaxRank
    /\ Len(arg.in.extents) = MaxRank
    /\ arg.in.chunkCoords[1] = arg.in.extents[1][2]
    /\ arg.in.extents[1][1] < arg.in.extents[1][2]
    /\ last.result = Value(TRUE)

(***************************************************************************)
(* Node lookup.                                                            *)
(***************************************************************************)
Normalise(q) == IF q \in {EmptyStr, <<"", "">>} THEN EmptyStr ELSE StripSlashes(q)
SortedLexicographically(nodes) ==
    \A i \in 1..Len(nodes) : \A j \in 1..Len(nodes) :
        i < j => Lexicographic(nodes[i].path, nodes[j].path) < 0
NodesWithPath(nodes, q) == {i \in 1..Len(nodes) : nodes[i].path = q}

\* C19: on a snapshot whose nodes are sorted ascending by path in
\* lexicographic order, findNode(snapshot, p) returns the node whose path is
\* normalise(p) when there is one and undefined when there is none, and a
\* node it returns has path normalise(p).
C19_FindsByNormalisedPath ==
    (last.op = "findNode" /\ SortedLexicographically(arg.in.snapshot.nodes)) =>
      LET nodes == arg.in.snapshot.nodes
          q == Normalise(arg.in.path)
          found == last.result.data
      IN  /\ \A i \in NodesWithPath(nodes, q) : found = nodes[i]
          /\ NodesWithPath(nodes, q) = {} => found = NoNode
          /\ found # NoNode => found.path = q

(***************************************************************************)
(* Identifiers.                                                            *)
(***************************************************************************)
CrockfordAlphabet ==
    {"0", "1", "2", "3", "4", "5", "6", "7", "8", "9", "A", "B", "C", "D", "E", "F",
     "G", "H", "J", "K", "M", "N", "P", "Q", "R", "S", "T", "V", "W", "X", "Y", "Z"}

\* C20: decoding the encoding of a 12-byte vector gives the vector back, and
\* the encoding is 20 characters of the Crockford alphabet, which
\* isValidSnapshotId accepts.
C20_RoundTrip ==
    /\ last.op = "crockfordBase32Encode" =>
          /\ Len(last.result.data) = 20
          /\ \A i \in 1..Len(last.result.data) : last.result.data[i] \in CrockfordAlphabet
          /\ isValidSnapshotId(last.result.data)
    /\ (last.op = "crockfordBase32Decode" /\ arg.fn = "crockfordBase32Encode") =>
          /\ Len(arg.in) = 12
          /\ last.result = Value(arg.in)

\* A vector of mixed bytes came back from its identifier.
C20_Witness ==
    /\ last.op = "crockfordBase32Decode"
    /\ arg.fn = "crockfordBase32Encode"
    /\ Len(last.key) = 20
    /\ \E i \in 1..12 : \E j \in 1..12 : arg.in[i] = 165 /\ arg.in[j] = 255
    /\ last.result.data = arg.in


(***************************************************************************)
(* Decoding texts.                                                         *)
(***************************************************************************)
LowerOf(c) ==
    IF \E i \in 1..26 : UpperCase[i] = c
    THEN LowerCase[CHOOSE i \in 1..26 : UpperCase[i] = c]
    ELSE c
LowerCased(t) == [i \in 1..Len(t) |-> LowerOf(t[i])]
\* The text with 0 for every O and 1 for every I and L, in either case.
Substituted(t) ==
    [i \in 1..Len(t) |->
        IF t[i] \in {"O", "o"} THEN "0"
        ELSE IF t[i] \in {"I", "i", "L", "l"} THEN "1"
        ELSE t[i]]
Decodable(c) ==
    \/ c \in CrockfordAlphabet
    \/ \E d \in CrockfordAlphabet : c = LowerOf(d)
    \/ c \in {"O", "o", "I", "i", "L", "l"}
DecodedText == last.op = "crockfordBase32Decode" /\ arg.fn = "crockfordBase32Decode"

\* C21: crockfordBase32Decode gives a text and its lower-cased form the same
\* bytes, reads O as 0 and I and L as 1, and raises, returning no bytes, for
\* every text holding a character outside the alphabet and these substitutes.
C21_DecodeLenient ==
    DecodedText =>
      /\ last.result = crockfordBase32Decode(LowerCased(arg.in))
      /\ last.result = crockfordBase32Decode(Substituted(arg.in))
      /\ (\E i \in 1..Len(arg.in) : ~Decodable(arg.in[i])) <=> last.result.kind = "error"

\* A text with a lower-case letter and a substitute was decoded to bytes.
C21_Witness ==
    /\ DecodedText
    /\ \E i \in 1..Len(arg.in) : arg.in[i] \in {"a", "z"}
    /\ \E i \in 1..Len(arg.in) : arg.in[i] \in {"O", "I", "l"}
    /\ last.result.kind = "value"
    /\ Len(last.result.data) >= 1


(***************************************************************************)
(* The zarr.json document.                                                 *)
(***************************************************************************)
\* C22: the document is, for a group, {zarr_format 3, node_type "group",
\* attributes userAttributes}; for an array, userAttributes verbatim exactly
\* when userAttributes.zarr_format is 2 or 3, and otherwise a synthesised v3
\* array document whose chunk-key encoding is "default" with "/" for slash
\* and "v2" with "." for dot.
C22_ZarrJsonDocument ==
    last.op = "encodeZarrJson" =>
      LET node == arg.in
          document == last.result.data.json
      IN  IF node.nodeData.type = "group"
          THEN document = [zarr_format |-> 3, node_type |-> "group",
                           attributes |-> node.userAttributes]
          ELSE IF node.userAttributes.zarr_format \in {JsNumber(2), JsNumber(3)}
          THEN document = node.userAttributes
          ELSE /\ document # node.userAttributes
               /\ document.zarr_format = 3
               /\ document.node_type = "array"
               /\ document.chunk_key_encoding =
                     IF node.nodeData.zarrMetadata.chunkKeyEncoding = "slash"
                     THEN [name |-> "default", configuration |-> [separator |-> "/"]]
                     ELSE [name |-> "v2", configuration |-> [separator |-> "."]]


(***************************************************************************)
(* Children.                                                               *)
(***************************************************************************)
\* The segments of a path, the root having none.
SegmentsOf(q) == NonEmptyAtoms(q)
StrictlyUnder(nodePath, q) ==
    LET segs == SegmentsOf(nodePath)
        parent == SegmentsOf(q)
    IN  Len(segs) > Len(parent) /\ SubSeq(segs, 1, Len(parent)) = parent
ChildNames(nodes, q) ==
    {SegmentsOf(nodes[i].path)[Len(SegmentsOf(q)) + 1] :
        i \in {j \in 1..Len(nodes) : StrictlyUnder(nodes[j].path, q)}}

\* C23: listChildren(path) returns, each once, exactly the first segments
\* below path of the nodes strictly under path; the node at path adds
\* nothing, the root never appears as an empty name, and a node whose path
\* only begins with the same characters is left out.
C23_ChildrenAreFirstSegments ==
    last.op = "listChildren" =>
      LET children == last.result.data
      IN  /\ {children[i] : i \in 1..Len(children)} = ChildNames(arg.in.snapshot.nodes, arg.in.path)
          /\ \A i \in 1..Len(children) : \A j \in 1..Len(children) :
                 children[i] = children[j] => i = j
          /\ \A i \in 1..Len(children) : children[i] # ""

\* Under "a" there were a node "a", a node "ab/c" and two nodes below "a/b":
\* the answer was "b" alone.
C23_Witness ==
    /\ last.op = "listChildren"
    /\ SegmentsOf(arg.in.path) = <<"a">>
    /\ \E i \in 1..Len(arg.in.snapshot.nodes) : arg.in.snapshot.nodes[i].path = <<"ab", "c">>
    /\ \E i \in 1..Len(arg.in.snapshot.nodes) : arg.in.snapshot.nodes[i].path = <<"a", "b">>
    /\ \E i \in 1..Len(arg.in.snapshot.nodes) : arg.in.snapshot.nodes[i].path = <<"a", "b", "c">>
    /\ last.result.data = <<"b">>


(***************************************************************************)
(* Range requests.                                                         *)
(***************************************************************************)
\* C24: a range request yields the response body only on status 200 or 206;
\* on every other status the get raises an I/O error and returns no bytes.
C24_RangeStatus ==
    \A i \in 1..Len(last.reqs) :
        (last.reqs[i].kind = "range" /\ last.reqs[i].status \notin {200, 206}) =>
            last.result = Error("io")


(***************************************************************************)
(* URL translation.                                                        *)
(***************************************************************************)
GsForm(u) == Len(u) >= 3 /\ u[1] = "gs:" /\ u[2] = ""
S3Form(u) == Len(u) >= 3 /\ u[1] = "s3:" /\ u[2] = ""
\* B/K of gs://B/K, and K of s3://B/K.
AfterScheme(u) == SubSeq(u, 3, Len(u))
KeyOf(u) == IF Len(u) = 3 THEN <<"">> ELSE SubSeq(u, 4, Len(u))
\* The requests of the settled call that a virtual payload's location names.
ToLocation(req) ==
    /\ LastIsArrayChunk
    /\ req.kind = "range"
    /\ \E e \in LastEntries : e[3].type = "virtual"

\* C25: translateUrl maps gs://B/K to https://storage.googleapis.com/B/K and
\* s3://B/K to https://B.s3.us-east-1.amazonaws.com/K, returns every other
\* URL unchanged, and applied twice gives what it gives once; the requests
\* the store builds from rootUrl carry rootUrl as it was given.
C25_TranslateUrl ==
    /\ last.op = "translateUrl" =>
          LET u == last.key
              t == last.result.data
          IN  /\ GsForm(u) => t = <<"https:", "", "storage.googleapis.com">> \o AfterScheme(u)
              /\ (S3Form(u) /\ u[3] = "b") =>
                    t = <<"https:", "", "b.s3.us-east-1.amazonaws.com">> \o KeyOf(u)
              /\ (~GsForm(u) /\ ~S3Form(u)) => t = u
              /\ translateUrl(t) = t
    /\ (last.op \in {"open", "get"} /\ stores # <<>>) =>
          \A i \in 1..Len(last.reqs) :
              ~ToLocation(last.reqs[i]) =>
                  \E root \in RootUrls :
                      /\ stores[1].rootUrl = (IF EndsWithSlash(root) THEN root ELSE root \o <<"">>)
                      /\ Len(last.reqs[i].url) >= Len(stores[1].rootUrl)
                      /\ SubSeq(last.reqs[i].url, 1, Len(stores[1].rootUrl) - 1)
                            = Front(stores[1].rootUrl)

\* An s3:// URL was translated.
C25_Witness ==
    /\ last.op = "translateUrl"
    /\ S3Form(last.key)
    /\ Len(last.key) > 3
    /\ last.result.data # last.key


(***************************************************************************)
(* The manifest a chunk get consults.                                      *)
(***************************************************************************)
\* The covering ManifestRefs after the first whose manifest holds the chunk.
LaterHolders ==
    {i \in LastCovering :
        /\ LastNode.nodeData.manifests[i] # LastRef
        /\ EntriesFor(LastNode.nodeData.manifests[i].id, LastNode.id, LastParsed.chunkCoords) # {}}

\* C26: a chunk get selects the first ManifestRef, in stored order, whose
\* extents cover the coordinates; only that manifest is fetched and
\* consulted, and when it has no entry for the chunk the result is absent,
\* whatever later covering ManifestRefs hold.
C26_FirstCoveringOnly ==
    (LastIsArrayChunk /\ LastCovering # {}) =>
      /\ Len(LastFetches) <= 1
      /\ \A i \in 1..Len(LastFetches) :
            LastFetches[i].url = Front(LastStore.rootUrl) \o <<"manifests", LastRef.id>>
      /\ (LastEntries = {} /\ LastManifestLoaded) =>
            (last.result = Absent /\ LastRanges = <<>>)

\* The first covering manifest was fetched and lacked the chunk that a later
\* covering manifest holds: the get returned absent.
C26_Witness ==
    /\ LastIsArrayChunk
    /\ LastCovering # {}
    /\ LastEntries = {}
    /\ LaterHolders # {}
    /\ Len(LastFetches) = 1
    /\ LastManifestLoaded
    /\ last.result = Absent


(***************************************************************************)
(* Requests per get.                                                       *)
(***************************************************************************)
\* The manifest ids held by the cache when the settled get began.
HeldBefore == LRUKeys(last.before)
NeedsManifest == LastIsArrayChunk /\ LastCovering # {}

RequestsPerGet ==
    last.op = "get" =>
      /\ Len(LastFetches) <= 1
      /\ Len(LastRanges) <= 1
      /\ Len(last.reqs) = Len(LastFetches) + Len(LastRanges)
      /\ \A i \in 1..Len(LastFetches) :
            /\ NeedsManifest
            /\ LastFetches[i].url = Front(LastStore.rootUrl) \o <<"manifests", LastRef.id>>
            /\ LastRef.id \notin HeldBefore
      /\ (NeedsManifest /\ LastRef.id \in HeldBefore) => LastFetches = <<>>
      /\ (NeedsManifest /\ LastRef.id \notin HeldBefore) => Len(LastFetches) = 1

\* An entry leaves a cache only when a new one is set into the full cache.
LeavesByEviction ==
    \A c \in 1..Len(caches) :
        (LRUKeys(caches[c]) \ LRUKeys(caches'[c]) # {}) =>
            /\ Len(caches[c]) = caps[c]
            /\ LRUKeys(caches'[c]) \ LRUKeys(caches[c]) # {}

\* C27: a get issues at most one manifest GET and at most one chunk range
\* GET and repeats no request; the manifest GET, a full-object GET on
\* {root}manifests/{id}, is issued exactly when the manifest is needed and id
\* is not in the LRU, so a get needing a manifest still held issues none, and
\* an entry is held until a later insertion evicts it.
C27_FetchOnMissOnly == []RequestsPerGet /\ [][LeavesByEviction]_vars

\* A get found its manifest in the cache and went straight to the chunk.
C27_Witness ==
    /\ NeedsManifest
    /\ LastRef.id \in HeldBefore
    /\ LastFetches = <<>>
    /\ Len(LastRanges) = 1


(***************************************************************************)
(* Classification of chunk references.                                     *)
(***************************************************************************)
HasInline(ref) == ref.inline.present /\ ref.inline.v # ""
HasLocation(ref) == ref.location.present /\ ref.location.v # EmptyStr
HasChunkId(ref) == ref.chunk_id.present
OffsetOf(ref) == IF ref.offset.present THEN ref.offset.v ELSE 0
LengthOf(ref) == IF ref.length.present THEN ref.length.v ELSE 0

\* The payload the priority rule gives a ref that is not dropped.
Classified(ref) ==
    CASE HasInline(ref) -> Inline(ref.inline.v)
      [] ~HasInline(ref) /\ HasLocation(ref) ->
           Virtual(ref.location.v, OffsetOf(ref), LengthOf(ref))
      [] ~HasInline(ref) /\ ~HasLocation(ref) /\ HasChunkId(ref) ->
           Native(ref.chunk_id.v, OffsetOf(ref), LengthOf(ref))
Dropped(ref) == ~HasInline(ref) /\ ~HasLocation(ref) /\ ~HasChunkId(ref)

DecodedRefs == arg.in.arrays[1].refs
DecodedMap == last.result.data.chunks[1][2]
\* The positions of the refs that are kept, and the last kept one at coords.
KeptRefs == {j \in 1..Len(DecodedRefs) : ~Dropped(DecodedRefs[j])}
LastKeptAt(coords) ==
    LET js == {j \in KeptRefs : DecodedRefs[j].index.v = coords}
    IN  CHOOSE j \in js : \A k \in js : k <= j

SnapshotSet ==
    /\ \A s \in 1..Len(stores) :
          /\ stores[s].snapshot \in SnapshotIds
          /\ stores[s].parent # 0 => stores[s].snapshot = stores[stores[s].parent].snapshot
    /\ (last.op = "open" /\ last.result.kind = "error") => stores = <<>>
    /\ (last.op = "open" /\ last.result.kind # "error") => Len(stores) = 1
    /\ last.op = "get" =>
          ~(last.result.kind = "error" /\ last.result.data = Error("notinit").data)

\* No step changes the snapshot, rootUrl or basePath of a store that exists.
HandleKept ==
    /\ Len(stores') >= Len(stores)
    /\ \A s \in 1..Len(stores) :
          /\ stores'[s].snapshot = stores[s].snapshot
          /\ stores'[s].rootUrl = stores[s].rootUrl
          /\ stores'[s].basePath = stores[s].basePath

\* C29: every store obtained from open or resolve has a snapshot, set before
\* the store is handed out, and get never raises the not-initialised error on
\* it; no get, resolve, listChildren, listNodes or getSnapshot changes the
\* snapshot, rootUrl or basePath of an existing store.
C29_SnapshotSetOnce == []SnapshotSet /\ [][HandleKept]_vars

\* A view was made by resolve and a get on it returned bytes, its parent
\* unchanged.
C29_Witness ==
    /\ last.op = "get"
    /\ last.store > 1
    /\ last.result.kind = "bytes"
    /\ stores[last.store].snapshot = stores[1].snapshot
    /\ stores[1].basePath = EmptyStr


(***************************************************************************)
(* Concurrent gets.                                                        *)
(***************************************************************************)
\* What the get of call i returns when it runs alone on an empty cache.
AloneResult(i) ==
    GetOutcome(stores[arg.calls[i].store], arg.calls[i].key, <<>>,
               caps[stores[arg.calls[i].store].cache], arg.net).result
SameResult(a, b) == a.kind = b.kind /\ a.data = b.data
ManifestFetches(i) ==
    {arg.calls[i].reqs[j].url : j \in {k \in 1..Len(arg.calls[i].reqs) :
                                          arg.calls[i].reqs[k].kind = "fetch"}}

\* C30: in any interleaving of gets on a store and its view, every settled
\* get has the result it has when run alone on an empty cache, and the shared
\* cache holds at most one entry per manifest id and at most capacity
\* entries, each the manifest of its key.
C30_InterleavedGets ==
    /\ \A i \in 1..Len(arg.calls) :
          arg.calls[i].pc = "done" => SameResult(arg.calls[i].result, AloneResult(i))
    /\ \A c \in 1..Len(caches) :
          /\ Cardinality(LRUKeys(caches[c])) = Len(caches[c])
          /\ Len(caches[c]) <= caps[c]
          /\ \A j \in 1..Len(caches[c]) :
                caches[c][j].key \in ManifestIds /\ caches[c][j].value = caches[c][j].key

\* A get on the store and a get on its view both fetched the same manifest,
\* neither waiting for the other, and both returned its inline chunk.
C30_Witness ==
    /\ Len(arg.calls) = 2
    /\ arg.calls[1].store # arg.calls[2].store
    /\ \A i \in 1..2 : arg.calls[i].pc = "done" /\ arg.calls[i].result.kind = "bytes"
    /\ ManifestFetches(1) # {}
    /\ ManifestFetches(1) = ManifestFetches(2)
    /\ Len(caches[1]) = 1

====
